---------------------------- MODULE Spec2Model ----------------------------
(***************************************************************************)
(* A model of the session and registry engine of the IRC server            *)
(* (src/src/server, src/src/client, src/src/channel).                       *)
(*                                                                         *)
(* Strings that the code folds, compares or validates character by         *)
(* character (nicknames, channel names) are sequences of ASCII codes, so   *)
(* that to_lowercase, the nickname format check and the test for a leading *)
(* # are computed, not assumed.  Command names, numerics and capability    *)
(* tokens are only ever compared for equality and are TLA+ strings.        *)
(***************************************************************************)
EXTENDS Integers, Sequences, FiniteSets, TLC

(***************************************************************************)
(* Bounds of the model.                                                    *)
(***************************************************************************)
\* number of connections the listener accepts (client ids 1..NumClients)
NumClients == 2
\* a handler runs for a session only while fewer than MaxPending frames
\* wait in each queue it writes to (the writer task keeps up)
MaxPending == 1

ClientIds == 1..NumClients
\* Option::None of a nickname or username: a string no line can carry
None == <<0>>

(***************************************************************************)
(* Nicknames: "a", "A", "b" and the ill-formed "#".  Channel name: "#r".   *)
(***************************************************************************)
Nicks == {<<97>>, <<65>>, <<98>>}
BadNicks == {<<35>>}
ChannelNames == {<<35, 114>>}

\* str::starts_with('#')
starts_with_hash(s) == Len(s) > 0 /\ s[1] = 35

\* char::to_lowercase on ASCII
LowerChar(c) == IF c >= 65 /\ c <= 90 THEN c + 32 ELSE c

\* str::to_lowercase
to_lowercase(s) == [i \in 1..Len(s) |-> LowerChar(s[i])]

\* char::is_alphanumeric on ASCII
is_alphanumeric(c) ==
    \/ (c >= 48 /\ c <= 57)
    \/ (c >= 65 /\ c <= 90)
    \/ (c >= 97 /\ c <= 122)

\* the nickname format check of handle_nick
ValidNick(n) == \A i \in 1..Len(n) : is_alphanumeric(n[i]) \/ n[i] = 95 \/ n[i] = 45

(***************************************************************************)
(* HashMap as a partial function.                                          *)
(***************************************************************************)
MapPut(m, k, v) == [x \in (DOMAIN m) \cup {k} |-> IF x = k THEN v ELSE m[x]]
MapRemove(m, k) == [x \in (DOMAIN m) \ {k} |-> m[x]]
EmptyMap == [x \in {} |-> None]

VARIABLES
    conn,                 \* per client id: position of its connection task
    clients,              \* Server.clients: Vec<ClientId>
    client_map,           \* Server.client_map: the ids that have a Client handle
    nicknames,            \* Server.nicknames: HashMap<String, ClientId>
    nickname_map,         \* Server.nickname_map: HashMap<String, ClientId>
    channels,             \* Server.channels: name -> Channel
    nickname,             \* Client.nickname (None or a nick)
    username,             \* Client.username (None or "user")
    registered,           \* Client.registered
    cap_negotiating,      \* Client.cap_negotiating
    enabled_capabilities, \* Client.enabled_capabilities
    ping_timer,           \* Client.ping_timer is Some
    sendq,                \* frames pending in the bulk queue (sendq_tx)
    immq,                 \* frames pending in the immediate queue (write_raw)
    bcast,                \* per client id: the channel whose lock or broadcast its handler waits in
    pong_rx,              \* notifications sent on Client.pong_tx that the supervisor has not received
    supervisor,           \* the task start_ping_timer spawns: its position, last_ping and next tick
    now,                  \* the clock (seconds since the server started)
    timeouts,             \* config.timeouts: ping_interval and ping_timeout
    deadline,             \* per client id: when the sleep of its handle_connection ends
    outstanding,          \* per client id: since when a PING waits for its PONG, whether one ever
                          \* waited longer than ping_timeout, and whether a PONG was ever received
    inbox,                \* per client id: the lines its client has sent that the reader has not read
    task,                 \* per task that calls the Server directly: its position, argument, locals, result
    lock,                 \* the RwLocks around Server.channels, Server.clients and Server.client_map
    objects,              \* per channel name: how many Channel objects Channel::new has made for it
    access,               \* config.access: the D-, K-, G-, I- and O-lines
    modes,                \* Client.modes: the user modes of a session
    held,                 \* reservations granted by register_nickname and not released
    last,                 \* the operation the latest step performed
    scen                  \* per client id: progress through the CAP-gated registration scenario

serverVars == <<clients, client_map, nicknames, nickname_map, channels>>
clientVars == <<nickname, username, registered, cap_negotiating, enabled_capabilities, ping_timer,
                pong_rx, supervisor>>
queueVars == <<sendq, immq>>
timeVars == <<now, timeouts>>
callVars == <<task, lock, objects, access>>
vars == <<conn, serverVars, clientVars, queueVars, bcast, held, last, scen, timeVars, deadline,
          outstanding, inbox, callVars, modes>>

\* Option::None of an Instant
NoTime == -1

\* the ping supervisor of a session for which start_ping_timer has not run
NoSupervisor == [task |-> "none", last_ping |-> NoTime, next_tick |-> NoTime]

\* Timeouts::default()
DefaultTimeouts == [ping_interval |-> 16, ping_timeout |-> 128]

\* number of tasks that call the Server's methods directly, as the tests do
NumTasks == 2
TaskIds == 1..NumTasks

\* the names such tasks use: "#r" and "#s"
CallNames == {<<35, 114>>, <<35, 115>>}

\* a task between two calls
Idle == [pc |-> "idle", op |-> "none", arg |-> None, loc |-> None, ret |-> None]

\* a tokio RwLock nobody holds
Unlocked == [writer |-> 0, readers |-> {}]

\* AccessConfig::default(): no lines
NoLines ==
    [dlines |-> <<>>, klines |-> <<>>, glines |-> <<>>, ilines |-> <<>>, olines |-> <<>>]

(***************************************************************************)
(* Server::new and the state before any connection is accepted.           *)
(***************************************************************************)
ServerConfigured(cfg, acc) ==
    /\ access = acc
    /\ modes = [c \in ClientIds |-> {}]
    /\ task = [t \in TaskIds |-> Idle]
    /\ lock = [l \in {"channels", "clients", "client_map"} |-> Unlocked]
    /\ objects = [n \in CallNames |-> 0]
    /\ timeouts = cfg
    /\ now = 0
    /\ deadline = [c \in ClientIds |-> NoTime]
    /\ outstanding = [c \in ClientIds |-> [since |-> NoTime, overdue |-> FALSE, ponged |-> FALSE]]
    /\ pong_rx = [c \in ClientIds |-> 0]
    /\ supervisor = [c \in ClientIds |-> NoSupervisor]
    /\ conn = [c \in ClientIds |-> "new"]
    /\ clients = <<>>
    /\ client_map = {}
    /\ nicknames = EmptyMap
    /\ nickname_map = EmptyMap
    /\ channels = EmptyMap
    /\ nickname = [c \in ClientIds |-> None]
    /\ username = [c \in ClientIds |-> None]
    /\ registered = [c \in ClientIds |-> FALSE]
    /\ cap_negotiating = [c \in ClientIds |-> FALSE]
    /\ enabled_capabilities = [c \in ClientIds |-> {}]
    /\ ping_timer = [c \in ClientIds |-> FALSE]
    /\ sendq = [c \in ClientIds |-> <<>>]
    /\ immq = [c \in ClientIds |-> <<>>]
    /\ bcast = [c \in ClientIds |-> None]
    /\ held = {}
    /\ last = [op |-> "init"]
    /\ scen = [c \in ClientIds |-> "start"]
    /\ inbox = [c \in ClientIds |-> <<>>]

\* the server without access lines
ServerNew(cfg) == ServerConfigured(cfg, NoLines)

\* the server with the default timeouts
Init == ServerNew(DefaultTimeouts)

(***************************************************************************)
(* Nickname registry: Server::check_nickname, register_nickname,           *)
(* unregister_nickname, find_client_by_nick.                               *)
(***************************************************************************)
\* check_nickname reads Server.nicknames, the map no code writes to
check_nickname(n) == to_lowercase(n) \notin DOMAIN nicknames

\* a registry that keys the map by the nick as given
NickKeyRaw(n) == n

\* the key register_nickname and unregister_nickname use
NickKey(n) == to_lowercase(n)

\* register_nickname returns Ok
RegisterOk(map, n) == NickKey(n) \notin DOMAIN map

\* the nickname map after register_nickname(n, id)
RegisterMap(map, n, id) ==
    IF NickKey(n) \in DOMAIN map THEN map ELSE MapPut(map, NickKey(n), id)

\* the nickname map after unregister_nickname(n)
UnregisterMap(map, n) == MapRemove(map, NickKey(n))

\* the Option::None of a client lookup (ids start at 1)
NoClient == 0

\* find_client_by_nick: the id behind the nick, if it still has a Client handle
find_client_by_nick(n) ==
    IF to_lowercase(n) \in DOMAIN nickname_map
          /\ nickname_map[to_lowercase(n)] \in client_map
    THEN nickname_map[to_lowercase(n)]
    ELSE NoClient

\* the reservations a call of unregister_nickname(n) releases
Released(n) == {h \in held : to_lowercase(h.nick) = to_lowercase(n)}

\* a direct call of Server::register_nickname, as the server tests make it
register_nickname(n, id) ==
    /\ nickname_map' = RegisterMap(nickname_map, n, id)
    /\ held' = IF RegisterOk(nickname_map, n) THEN held \cup {[nick |-> n, id |-> id]} ELSE held
    /\ last' = [op |-> "register_nickname", nick |-> n, id |-> id, ok |-> RegisterOk(nickname_map, n)]
    /\ UNCHANGED <<conn, clients, client_map, nicknames, channels, clientVars, queueVars, bcast, scen,
                   timeVars, deadline, outstanding, inbox, callVars, modes>>

\* a direct call of Server::unregister_nickname
unregister_nickname(n) ==
    /\ nickname_map' = UnregisterMap(nickname_map, n)
    /\ held' = held \ Released(n)
    /\ last' = [op |-> "unregister_nickname", nick |-> n]
    /\ UNCHANGED <<conn, clients, client_map, nicknames, channels, clientVars, queueVars, bcast, scen,
                   timeVars, deadline, outstanding, inbox, callVars, modes>>

NextNick ==
    \/ \E n \in Nicks, id \in 1..(NumClients + 1) : register_nickname(n, id)
    \/ \E n \in Nicks : unregister_nickname(n)

\* concurrent callers of the nickname registry; each call runs under the map's write lock
SpecNick == Init /\ [][NextNick]_vars

(***************************************************************************)
(* Frames and replies: TS6Message, Client::send_numeric.                   *)
(***************************************************************************)
Frame(c, p) == [command |-> c, params |-> p]

\* "*", the target of a numeric sent to a session without nickname
Star == <<42>>

\* send_numeric: the nickname (or "*") goes first, then the arguments;
\* constant trailing texts are left out of the frame
Numeric(nick, code, args) == Frame(code, <<IF nick = None THEN Star ELSE nick>> \o args)

\* Capability::as_str of every capability, and the four Client::new offers
CapNames ==
    {"multi-prefix", "extended-join", "account-notify", "away-notify", "chghost",
     "server-time", "message-tags", "batch", "labeled-response"}
AvailableCapabilities == {"multi-prefix", "extended-join", "server-time", "message-tags"}

\* a request of which nothing is enabled
NoCaps(tokens) == {}

\* Capability::from_str over the tokens of a CAP REQ parameter
ParsedCaps(tokens) == {tokens[i] : i \in 1..Len(tokens)} \cap CapNames

\* the welcome numerics with the whole LUSERS range 251-255
WelcomeNumericsWith253 ==
    <<"001", "002", "003", "004", "005", "251", "252", "253", "254", "255", "265", "266",
      "375", "372", "376">>

\* the numerics complete_registration sends, in the order it sends them
WelcomeNumerics ==
    <<"001", "002", "003", "004", "005", "251", "252", "254", "255", "265", "266",
      "375", "372", "376">>
WelcomeBatch(nick) == [i \in 1..Len(WelcomeNumerics) |-> Numeric(nick, WelcomeNumerics[i], <<>>)]

\* a check_registration that does not wait for USER
ShouldCompleteOnNick(reg, nick, user, capneg) ==
    ~ reg /\ nick # None /\ ~ capneg

\* check_registration: the condition under which it calls complete_registration
ShouldComplete(reg, nick, user, capneg) ==
    ~ reg /\ nick # None /\ user # None /\ ~ capneg

\* Vec::swap_remove of the first position holding id
swap_remove(v, id) ==
    IF \E i \in 1..Len(v) : v[i] = id
    THEN LET pos == CHOOSE i \in 1..Len(v) : v[i] = id /\ \A j \in 1..(i - 1) : v[j] # id
             w == [v EXCEPT ![pos] = v[Len(v)]]
         IN SubSeq(w, 1, Len(v) - 1)
    ELSE v

(***************************************************************************)
(* Channel: Channel::new, add_member, remove_member, set_mode, has_mode.   *)
(***************************************************************************)
\* Channel::set_mode
set_mode(ch, mode, param, adding) ==
    IF adding
    THEN [ch EXCEPT !.modes = @ \cup {mode},
                    !.mode_params = IF param # None THEN MapPut(@, mode, param) ELSE @]
    ELSE [ch EXCEPT !.modes = @ \ {mode}, !.mode_params = MapRemove(@, mode)]

\* Channel::new: no members, no topic, modes +n +t.  The field locked is
\* the RwLock around the Channel: TRUE once a writer holds it for good.
ChannelNew ==
    set_mode(set_mode([members |-> {}, modes |-> {}, mode_params |-> EmptyMap, topic |-> None,
                       locked |-> FALSE],
                      "n", None, TRUE),
             "t", None, TRUE)

add_member(ch, id) == [ch EXCEPT !.members = @ \cup {id}]
remove_member(ch, id) == [ch EXCEPT !.members = @ \ {id}]

\* Channel::has_mode with a target: the mode's parameter is that nick
has_mode(ch, mode, target) ==
    IF target # None
    THEN mode \in DOMAIN ch.mode_params /\ ch.mode_params[mode] = target
    ELSE mode \in ch.modes

\* Server::get_or_create_channel: the channel map afterwards
get_or_create_channel(chans, name) ==
    IF name \in DOMAIN chans THEN chans ELSE MapPut(chans, name, ChannelNew)

(***************************************************************************)
(* Command handlers of a session.  Each is the effect of the handler on    *)
(* everything but the observers last and scen, which the dispatcher sets.  *)
(***************************************************************************)
\* a handler that returns without touching anything (Err, or a discarded command)
NoEffect == UNCHANGED <<conn, serverVars, clientVars, queueVars, bcast, held>>

\* Client::start_ping_timer: the spawned task skips the first tick of its
\* interval, which is immediate, and waits for the next with last_ping = None
start_ping_timer ==
    [task |-> "running", last_ping |-> NoTime, next_tick |-> now + timeouts.ping_interval]

\* Client::complete_registration
complete_registration(s, nick) ==
    /\ registered' = [registered EXCEPT ![s] = TRUE]
    /\ sendq' = [sendq EXCEPT ![s] = @ \o WelcomeBatch(nick)]
    /\ ping_timer' = [ping_timer EXCEPT ![s] = TRUE]
    /\ supervisor' = [supervisor EXCEPT ![s] = start_ping_timer]

\* Client::check_registration, with the nickname and username the handler has just stored
check_registration(s, nick, user) ==
    IF ShouldComplete(registered[s], nick, user, cap_negotiating[s])
    THEN complete_registration(s, nick)
    ELSE UNCHANGED <<registered, sendq, ping_timer, supervisor>>

\* Client::handle_nick
handle_nick(s, msg) ==
    IF cap_negotiating[s] \/ Len(msg.params) = 0
    THEN NoEffect
    ELSE LET new_nick == msg.params[1] IN
      IF ~ ValidNick(new_nick)
      THEN NoEffect
      ELSE IF ~ check_nickname(new_nick)
      THEN /\ sendq' = [sendq EXCEPT ![s] = Append(@, Numeric(nickname[s], "433", <<new_nick>>))]
           /\ UNCHANGED <<conn, serverVars, clientVars, immq, bcast, held>>
      ELSE LET map1 == IF nickname[s] # None
                       THEN UnregisterMap(nickname_map, nickname[s])
                       ELSE nickname_map
               held1 == IF nickname[s] # None THEN held \ Released(nickname[s]) ELSE held
           IN IF ~ RegisterOk(map1, new_nick)
              THEN /\ nickname_map' = map1
                   /\ held' = held1
                   /\ sendq' = [sendq EXCEPT ![s] = Append(@, Numeric(nickname[s], "433", <<new_nick>>))]
                   /\ UNCHANGED <<conn, clients, client_map, nicknames, channels, clientVars,
                                  immq, bcast>>
              ELSE /\ nickname_map' = RegisterMap(map1, new_nick, s)
                   /\ held' = held1 \cup {[nick |-> new_nick, id |-> s]}
                   /\ nickname' = [nickname EXCEPT ![s] = new_nick]
                   /\ check_registration(s, new_nick, username[s])
                   /\ UNCHANGED <<conn, clients, client_map, nicknames, channels, username,
                                  cap_negotiating, enabled_capabilities, pong_rx, immq, bcast>>

\* Client::handle_user
handle_user(s, msg) ==
    IF cap_negotiating[s] \/ registered[s] \/ Len(msg.params) < 4
    THEN NoEffect
    ELSE /\ username' = [username EXCEPT ![s] = msg.params[1]]
         /\ check_registration(s, nickname[s], msg.params[1])
         /\ UNCHANGED <<conn, serverVars, nickname, cap_negotiating, enabled_capabilities,
                        pong_rx, immq, bcast, held>>

\* Client::handle_quit: broadcast_global does nothing, the reader goes on
handle_quit(s, msg) == NoEffect

\* Client::handle_ping
handle_ping(s, msg) ==
    IF Len(msg.params) = 0
    THEN NoEffect
    ELSE /\ immq' = [immq EXCEPT ![s] = Append(@, Frame("PONG", <<msg.params[1]>>))]
         /\ UNCHANGED <<conn, serverVars, clientVars, sendq, bcast, held>>

\* capacity of the pong_tx channel kept in the model
MaxPong == 2

\* Client::handle_pong: pong_tx.send(()) reaches the supervisor's receiver if
\* the task is there to hold one; otherwise the send fails and is logged
handle_pong(s, msg) ==
    /\ pong_rx' = [pong_rx EXCEPT ![s] =
            IF supervisor[s].task = "running" /\ @ < MaxPong THEN @ + 1 ELSE @]
    /\ UNCHANGED <<conn, serverVars, nickname, username, registered, cap_negotiating,
                   enabled_capabilities, ping_timer, supervisor, queueVars, bcast, held>>

\* Client::handle_cap, reached through the dispatcher's handle_cap_command
handle_cap(s, msg) ==
    LET sub == IF Len(msg.params) > 0 THEN msg.params[1] ELSE "" IN
    CASE sub = "LS" ->
           /\ cap_negotiating' = [cap_negotiating EXCEPT ![s] = TRUE]
           /\ immq' = [immq EXCEPT ![s] = Append(@, Frame("CAP", <<"*", "LS", AvailableCapabilities>>))]
           /\ UNCHANGED <<conn, serverVars, nickname, username, registered,
                          enabled_capabilities, ping_timer, pong_rx, supervisor, sendq, bcast, held>>
      [] sub = "REQ" ->
           IF Len(msg.params) < 2
           THEN NoEffect
           ELSE LET tokens == msg.params[2]
                    valid == \A i \in 1..Len(tokens) : tokens[i] \in AvailableCapabilities
                IN /\ enabled_capabilities' =
                        [enabled_capabilities EXCEPT ![s] = IF valid THEN @ \cup ParsedCaps(tokens) ELSE @]
                   /\ immq' = [immq EXCEPT ![s] =
                        Append(@, Frame("CAP", <<"*", IF valid THEN "ACK" ELSE "NAK", tokens>>))]
                   /\ UNCHANGED <<conn, serverVars, nickname, username, registered,
                                  cap_negotiating, ping_timer, pong_rx, supervisor, sendq, bcast,
                                  held>>
      [] sub = "END" ->
           /\ cap_negotiating' = [cap_negotiating EXCEPT ![s] = FALSE]
           /\ IF nickname[s] # None /\ username[s] # None /\ ~ registered[s]
              THEN complete_registration(s, nickname[s])
              ELSE UNCHANGED <<registered, sendq, ping_timer, supervisor>>
           /\ UNCHANGED <<conn, serverVars, nickname, username, enabled_capabilities,
                          pong_rx, immq, bcast, held>>
      [] sub = "LIST" ->
           /\ sendq' = [sendq EXCEPT ![s] = Append(@, Frame("CAP", <<"*", "LIST", enabled_capabilities[s]>>))]
           /\ UNCHANGED <<conn, serverVars, clientVars, immq, bcast, held>>
      [] OTHER -> NoEffect

\* Server::broadcast_to_channel over a snapshot of members: the members it
\* waits for.  A member whose connection task runs (reading, or stuck in a
\* handler) holds its own mutex, and the broadcast waits for it.
LockedMembers(members, skip) ==
    {m \in (members \ skip) \cap client_map : conn[m] \in {"open", "blocked", "hung"}}

\* the members a broadcast reaches: those left in the registry whose mutex is free
FreeMembers(members, skip) ==
    {m \in (members \ skip) \cap client_map : conn[m] \notin {"open", "blocked", "hung"}}

\* the queues after a broadcast that reached the members in D, and
\* queued the frames own for s itself
Delivered(D, frame, s, own) ==
    [m \in ClientIds |->
        (IF m = s THEN sendq[m] \o own ELSE sendq[m])
            \o (IF m \in D THEN <<frame>> ELSE <<>>)]

\* Client::handle_join.  The handler adds the member under the channel's
\* write lock, queues the JOIN frame for its own session and then enters
\* broadcast_to_channel without a skip: the snapshot holds the joiner,
\* whose mutex its own connection task holds, so the handler never returns.
\* The first joiner without a nickname panics on the unwrap at the +o.
\* On a channel whose lock is held for good the handler waits at write().
\* The broadcast visits the members in the order of the HashSet: it may
\* reach any of the members whose mutex is free before it stops.
handle_join(s, msg) ==
    IF Len(msg.params) = 0
    THEN NoEffect
    ELSE LET name == msg.params[1]
             chans == get_or_create_channel(channels, name)
             is_first == chans[name].members = {}
             ch1 == add_member(chans[name], s)
         IN IF chans[name].locked
            THEN /\ conn' = [conn EXCEPT ![s] = "blocked"]
                 /\ bcast' = [bcast EXCEPT ![s] = name]
                 /\ UNCHANGED <<serverVars, clientVars, queueVars, held>>
            ELSE IF is_first /\ nickname[s] = None
            THEN /\ channels' = MapPut(chans, name, ch1)
                 /\ conn' = [conn EXCEPT ![s] = "panicked"]
                 /\ UNCHANGED <<clients, client_map, nicknames, nickname_map, clientVars,
                                queueVars, bcast, held>>
            ELSE /\ channels' = MapPut(chans, name,
                                       IF is_first THEN set_mode(ch1, "o", nickname[s], TRUE) ELSE ch1)
                 /\ \E D \in SUBSET FreeMembers(ch1.members, {}) :
                        sendq' = Delivered(D, Frame("JOIN", <<name>>), s, <<Frame("JOIN", <<name>>)>>)
                 /\ conn' = [conn EXCEPT ![s] = "blocked"]
                 /\ bcast' = [bcast EXCEPT ![s] = name]
                 /\ UNCHANGED <<clients, client_map, nicknames, nickname_map, clientVars,
                                immq, held>>

\* Client::handle_part
handle_part(s, msg) ==
    IF Len(msg.params) = 0
    THEN NoEffect
    ELSE LET name == msg.params[1] IN
      IF name \notin DOMAIN channels
      THEN NoEffect
      ELSE IF channels[name].locked
      THEN /\ conn' = [conn EXCEPT ![s] = "blocked"]
           /\ bcast' = [bcast EXCEPT ![s] = name]
           /\ UNCHANGED <<serverVars, clientVars, queueVars, held>>
      ELSE IF s \notin channels[name].members
      THEN NoEffect
      ELSE IF LockedMembers(channels[name].members, {s}) # {}
      THEN /\ \E D \in SUBSET FreeMembers(channels[name].members, {s}) :
                  sendq' = Delivered(D, Frame("PART", <<name>>), s, <<>>)
           /\ conn' = [conn EXCEPT ![s] = "blocked"]
           /\ bcast' = [bcast EXCEPT ![s] = name]
           /\ UNCHANGED <<serverVars, clientVars, immq, held>>
      ELSE /\ channels' = [channels EXCEPT ![name] = remove_member(@, s)]
           /\ sendq' = Delivered(FreeMembers(channels[name].members, {s}), Frame("PART", <<name>>), s,
                                 <<Frame("PART", <<name>>)>>)
           /\ UNCHANGED <<conn, clients, client_map, nicknames, nickname_map, clientVars,
                          immq, bcast, held>>

\* the loop of handle_channel_mode over the characters of the mode string:
\* acc.ch is the channel so far, acc.changes the changes made so far
RECURSIVE apply_mode_chars(_, _, _, _, _)
apply_mode_chars(acc, chars, i, params, adding) ==
    IF i > Len(chars)
    THEN acc
    ELSE LET c == chars[i] IN
      CASE c = "+" -> apply_mode_chars(acc, chars, i + 1, params, TRUE)
        [] c = "-" -> apply_mode_chars(acc, chars, i + 1, params, FALSE)
        [] c \in {"n", "t", "m", "i", "s"} ->
             apply_mode_chars([ch |-> set_mode(acc.ch, c, None, adding),
                               changes |-> Append(acc.changes, [mode |-> c, adding |-> adding])],
                              chars, i + 1, params, adding)
        [] c = "k" /\ adding /\ Len(params) > 0 ->
             apply_mode_chars([ch |-> set_mode(acc.ch, c, Head(params), TRUE),
                               changes |-> Append(acc.changes, [mode |-> c, adding |-> TRUE])],
                              chars, i + 1, Tail(params), adding)
        [] c = "k" /\ ~ adding ->
             apply_mode_chars([ch |-> set_mode(acc.ch, c, None, FALSE),
                               changes |-> Append(acc.changes, [mode |-> c, adding |-> FALSE])],
                              chars, i + 1, params, adding)
        [] OTHER -> apply_mode_chars(acc, chars, i + 1, params, adding)

\* Client::handle_channel_mode on a target that starts with '#'.  With one
\* parameter it answers 324.  Otherwise it applies the mode characters
\* under the channel's write lock and, if any change was made, calls
\* broadcast_to_channel with the write lock still held: the broadcast asks
\* for the channel's read lock and the handler never returns, nor does the
\* lock.  The 324 reply carries the mode set; the order of its characters
\* is the HashSet's.
handle_channel_mode(s, msg) ==
    LET target == msg.params[1] IN
    IF target \notin DOMAIN channels
    THEN NoEffect
    ELSE IF channels[target].locked
    THEN /\ conn' = [conn EXCEPT ![s] = "blocked"]
         /\ bcast' = [bcast EXCEPT ![s] = target]
         /\ UNCHANGED <<serverVars, clientVars, queueVars, held>>
    ELSE IF Len(msg.params) = 1
    THEN /\ sendq' = [sendq EXCEPT ![s] =
                Append(@, Numeric(nickname[s], "324", <<target, channels[target].modes>>))]
         /\ UNCHANGED <<conn, serverVars, clientVars, immq, bcast, held>>
    ELSE LET res == apply_mode_chars([ch |-> channels[target], changes |-> <<>>],
                                     msg.params[2], 1, SubSeq(msg.params, 3, Len(msg.params)),
                                     TRUE)
         IN IF res.changes = <<>>
            THEN NoEffect
            ELSE /\ channels' = [channels EXCEPT ![target] = [res.ch EXCEPT !.locked = TRUE]]
                 /\ conn' = [conn EXCEPT ![s] = "blocked"]
                 /\ bcast' = [bcast EXCEPT ![s] = target]
                 /\ UNCHANGED <<clients, client_map, nicknames, nickname_map, clientVars,
                                queueVars, held>>

\* the MODE arm of the dispatcher; MODE on a nickname is not among the
\* lines the model has a client send
handle_mode_command(s, msg) ==
    IF Len(msg.params) = 0
    THEN NoEffect
    ELSE IF starts_with_hash(msg.params[1])
    THEN handle_channel_mode(s, msg)
    ELSE NoEffect

\* Client::handle_privmsg.  To a channel: 442 for a session that is not on it,
\* otherwise broadcast_to_channel with the sender skipped, which waits for
\* every member whose mutex is held.  To a nickname: the line is queued for
\* the session find_client_by_nick returns, once its mutex is free; 401 if
\* there is none.
handle_privmsg(s, msg) ==
    IF ~ registered[s] \/ Len(msg.params) < 2
    THEN NoEffect
    ELSE LET target == msg.params[1]
             line == Frame("PRIVMSG", <<target, msg.params[2]>>)
         IN IF starts_with_hash(target)
            THEN IF target \in DOMAIN channels /\ channels[target].locked
                 THEN /\ conn' = [conn EXCEPT ![s] = "blocked"]
                      /\ bcast' = [bcast EXCEPT ![s] = target]
                      /\ UNCHANGED <<serverVars, clientVars, queueVars, held>>
                 ELSE IF target \notin DOMAIN channels \/ s \notin channels[target].members
                 THEN /\ sendq' = [sendq EXCEPT ![s] = Append(@, Numeric(nickname[s], "442", <<target>>))]
                      /\ UNCHANGED <<conn, serverVars, clientVars, immq, bcast, held>>
                 ELSE IF LockedMembers(channels[target].members, {s}) # {}
                 THEN /\ \E D \in SUBSET FreeMembers(channels[target].members, {s}) :
                             sendq' = Delivered(D, line, s, <<>>)
                      /\ conn' = [conn EXCEPT ![s] = "blocked"]
                      /\ bcast' = [bcast EXCEPT ![s] = target]
                      /\ UNCHANGED <<serverVars, clientVars, immq, held>>
                 ELSE /\ sendq' = Delivered(FreeMembers(channels[target].members, {s}), line, s, <<>>)
                      /\ UNCHANGED <<conn, serverVars, clientVars, immq, bcast, held>>
            ELSE LET to == find_client_by_nick(target) IN
                 IF to = NoClient
                 THEN /\ sendq' = [sendq EXCEPT ![s] = Append(@, Numeric(nickname[s], "401", <<target>>))]
                      /\ UNCHANGED <<conn, serverVars, clientVars, immq, bcast, held>>
                 ELSE IF conn[to] \in {"open", "blocked", "hung"}
                 THEN /\ conn' = [conn EXCEPT ![s] = "blocked"]
                      /\ UNCHANGED <<serverVars, clientVars, queueVars, bcast, held>>
                 ELSE /\ sendq' = [sendq EXCEPT ![to] = Append(@, line)]
                      /\ UNCHANGED <<conn, serverVars, clientVars, immq, bcast, held>>

\* Client::handle_notice: handle_privmsg without the replies 442 and 401
handle_notice(s, msg) ==
    IF ~ registered[s] \/ Len(msg.params) < 2
    THEN NoEffect
    ELSE LET target == msg.params[1]
             line == Frame("NOTICE", <<target, msg.params[2]>>)
         IN IF starts_with_hash(target)
            THEN IF target \in DOMAIN channels /\ channels[target].locked
                 THEN /\ conn' = [conn EXCEPT ![s] = "blocked"]
                      /\ bcast' = [bcast EXCEPT ![s] = target]
                      /\ UNCHANGED <<serverVars, clientVars, queueVars, held>>
                 ELSE IF target \notin DOMAIN channels \/ s \notin channels[target].members
                 THEN NoEffect
                 ELSE IF LockedMembers(channels[target].members, {s}) # {}
                 THEN /\ \E D \in SUBSET FreeMembers(channels[target].members, {s}) :
                             sendq' = Delivered(D, line, s, <<>>)
                      /\ conn' = [conn EXCEPT ![s] = "blocked"]
                      /\ bcast' = [bcast EXCEPT ![s] = target]
                      /\ UNCHANGED <<serverVars, clientVars, immq, held>>
                 ELSE /\ sendq' = Delivered(FreeMembers(channels[target].members, {s}), line, s, <<>>)
                      /\ UNCHANGED <<conn, serverVars, clientVars, immq, bcast, held>>
            ELSE LET to == find_client_by_nick(target) IN
                 IF to = NoClient
                 THEN NoEffect
                 ELSE IF conn[to] \in {"open", "blocked", "hung"}
                 THEN /\ conn' = [conn EXCEPT ![s] = "blocked"]
                      /\ UNCHANGED <<serverVars, clientVars, queueVars, bcast, held>>
                 ELSE /\ sendq' = [sendq EXCEPT ![to] = Append(@, line)]
                      /\ UNCHANGED <<conn, serverVars, clientVars, immq, bcast, held>>

\* the dispatcher's last arm: numeric 421
unknown_command(s, msg) ==
    /\ sendq' = [sendq EXCEPT ![s] = Append(@, Numeric(nickname[s], "421", <<msg.command>>))]
    /\ UNCHANGED <<conn, serverVars, clientVars, immq, bcast, held>>

\* a dispatcher without the arm that discards commands during negotiation
dispatch_ungated(s, msg) ==
    CASE msg.command = "CAP" -> handle_cap(s, msg)
      [] msg.command = "NICK" -> handle_nick(s, msg)
      [] msg.command = "USER" -> handle_user(s, msg)
      [] msg.command = "QUIT" -> handle_quit(s, msg)
      [] msg.command = "JOIN" -> handle_join(s, msg)
      [] msg.command = "PART" -> handle_part(s, msg)
      [] msg.command = "PING" -> handle_ping(s, msg)
      [] msg.command = "PONG" -> handle_pong(s, msg)
      [] msg.command = "MODE" -> handle_mode_command(s, msg)
      [] msg.command = "PRIVMSG" -> handle_privmsg(s, msg)
      [] msg.command = "NOTICE" -> handle_notice(s, msg)
      [] OTHER -> unknown_command(s, msg)

\* the match of Client::handle_message
dispatch(s, msg) ==
    IF msg.command = "CAP"
    THEN handle_cap(s, msg)
    ELSE IF cap_negotiating[s]
    THEN (IF msg.command = "QUIT" THEN handle_quit(s, msg) ELSE NoEffect)
    ELSE CASE msg.command = "NICK" -> handle_nick(s, msg)
           [] msg.command = "USER" -> handle_user(s, msg)
           [] msg.command = "QUIT" -> handle_quit(s, msg)
           [] msg.command = "JOIN" -> handle_join(s, msg)
           [] msg.command = "PART" -> handle_part(s, msg)
           [] msg.command = "PING" -> handle_ping(s, msg)
           [] msg.command = "PONG" -> handle_pong(s, msg)
           [] msg.command = "MODE" -> handle_mode_command(s, msg)
           [] msg.command = "PRIVMSG" -> handle_privmsg(s, msg)
           [] msg.command = "NOTICE" -> handle_notice(s, msg)
           [] OTHER -> unknown_command(s, msg)

\* progress of a session through the exchange
\*   CAP LS 302, NICK x, USER x 0 * :x, CAP END
\* with nothing else in between
ScenNext(st, msg) ==
    CASE st = "start" /\ msg.command = "CAP" /\ Len(msg.params) = 2
                      /\ msg.params[1] = "LS" -> "ls"
      [] st = "ls" /\ msg.command = "NICK" /\ Len(msg.params) = 1
                   /\ ValidNick(msg.params[1]) -> "nick"
      [] st = "nick" /\ msg.command = "USER" /\ Len(msg.params) = 4 -> "user"
      [] st = "user" /\ msg.command = "CAP" /\ Len(msg.params) = 1
                     /\ msg.params[1] = "END" -> "done"
      [] OTHER -> "off"

\* the writer keeps up: a line is read only when fewer than MaxPending
\* frames wait in any queue
WriterKeepsUp == \A c \in ClientIds : Len(sendq[c]) < MaxPending /\ Len(immq[c]) < MaxPending

\* one turn of the reader loop on the line msg: it is parsed and handled; a
\* handler's Err(Protocol) is logged and the loop goes on
handle_line(s, msg) ==
    /\ conn[s] = "open"
    /\ WriterKeepsUp
    /\ dispatch(s, msg)
    /\ last' = [op |-> "handle_message", id |-> s, command |-> msg.command]
    /\ scen' = [scen EXCEPT ![s] = ScenNext(@, msg)]
    /\ outstanding' = IF msg.command = "PONG" /\ ~ cap_negotiating[s]
                      THEN [outstanding EXCEPT ![s].since = NoTime, ![s].ponged = TRUE]
                      ELSE outstanding
    /\ UNCHANGED <<timeVars, deadline, callVars, modes>>

\* a line arrives and the reader handles it at once
handle_message(s, msg) ==
    /\ handle_line(s, msg)
    /\ UNCHANGED inbox

\* number of lines a client has sent ahead of the reader
MaxInbox == 1

\* the client of s writes a line to its socket
client_send(s, msg) ==
    /\ conn[s] \in {"open", "blocked", "hung"}
    /\ Len(inbox[s]) < MaxInbox
    /\ inbox' = [inbox EXCEPT ![s] = Append(@, msg)]
    /\ last' = [op |-> "client_send", id |-> s, command |-> msg.command]
    /\ UNCHANGED <<conn, serverVars, clientVars, queueVars, bcast, held, scen, timeVars, deadline,
                   outstanding, callVars, modes>>

\* the reader takes the oldest line its client has sent
read_line(s) ==
    /\ inbox[s] # <<>>
    /\ handle_line(s, Head(inbox[s]))
    /\ inbox' = [inbox EXCEPT ![s] = Tail(@)]

(***************************************************************************)
(* The connection task: handle_connection.                                 *)
(***************************************************************************)
\* Duration::from_secs(60) of the sleep in handle_connection
REGISTRATION_TIMEOUT == 60

\* Client::new and Server::add_client for an accepted socket; the sleep of
\* handle_connection starts with the task
Accept(s) ==
    /\ conn[s] = "new"
    /\ conn' = [conn EXCEPT ![s] = "open"]
    /\ clients' = Append(clients, s)
    /\ client_map' = client_map \cup {s}
    /\ deadline' = [deadline EXCEPT ![s] = now + REGISTRATION_TIMEOUT]
    /\ last' = [op |-> "add_client", id |-> s]
    /\ UNCHANGED <<nicknames, nickname_map, channels, clientVars, queueVars, bcast, held, scen,
                   timeVars, outstanding, inbox, callVars, modes>>

\* the reader sees end of input and returns
Eof(s) ==
    /\ conn[s] = "open"
    /\ conn' = [conn EXCEPT ![s] = "closing"]
    /\ last' = [op |-> "eof", id |-> s]
    /\ UNCHANGED <<serverVars, clientVars, queueVars, bcast, held, scen, timeVars, deadline,
                   outstanding, inbox, callVars, modes>>

\* Client::cleanup, then Server::remove_client
remove_client(s) ==
    /\ conn[s] = "closing"
    /\ conn' = [conn EXCEPT ![s] = "closed"]
    /\ ping_timer' = [ping_timer EXCEPT ![s] = FALSE]
    /\ supervisor' = [supervisor EXCEPT ![s] =
            IF @.task = "running" THEN [@ EXCEPT !.task = "cancelled"] ELSE @]
    /\ clients' = swap_remove(clients, s)
    /\ client_map' = client_map \ {s}
    /\ deadline' = [deadline EXCEPT ![s] = NoTime]
    /\ last' = [op |-> "remove_client", id |-> s]
    /\ UNCHANGED <<nicknames, nickname_map, channels, nickname, username, registered,
                   cap_negotiating, enabled_capabilities, pong_rx, queueVars, bcast, held, scen,
                   timeVars, outstanding, inbox, callVars, modes>>

\* the writer task puts every pending frame of both queues on the socket
Writer(s) ==
    /\ Len(sendq[s]) + Len(immq[s]) > 0
    /\ sendq' = [sendq EXCEPT ![s] = <<>>]
    /\ immq' = [immq EXCEPT ![s] = <<>>]
    /\ last' = [op |-> "writer", id |-> s]
    /\ UNCHANGED <<conn, serverVars, clientVars, bcast, held, scen, timeVars, deadline,
                   outstanding, inbox, callVars, modes>>

(***************************************************************************)
(* Timers: the ping supervisor of a session (the task start_ping_timer     *)
(* spawns) and the sleep of handle_connection.                             *)
(***************************************************************************)
\* the interval.tick() arm of the supervisor's select.  With a PING sent
\* and last_ping not reset since, it compares the time since that PING with
\* ping_timeout: beyond it, it queues the ERROR line and leaves the loop.
\* Otherwise it queues a PING and sets last_ping to the time of this tick.
ping_tick(s) ==
    /\ supervisor[s].task = "running"
    /\ supervisor[s].next_tick <= now
    /\ Len(sendq[s]) < MaxPending
    /\ LET sv == supervisor[s]
           timed_out == sv.last_ping # NoTime /\ now - sv.last_ping > timeouts.ping_timeout
       IN /\ supervisor' = [supervisor EXCEPT ![s] =
                 IF timed_out
                 THEN [sv EXCEPT !.task = "timed_out"]
                 ELSE [sv EXCEPT !.last_ping = now, !.next_tick = @ + timeouts.ping_interval]]
          /\ sendq' = [sendq EXCEPT ![s] =
                 Append(@, IF timed_out THEN Frame("ERROR", <<"Ping timeout">>)
                                        ELSE Frame("PING", <<>>))]
          /\ outstanding' = IF ~ timed_out /\ outstanding[s].since = NoTime
                            THEN [outstanding EXCEPT ![s].since = now]
                            ELSE outstanding
    /\ last' = [op |-> "ping_tick", id |-> s]
    /\ UNCHANGED <<conn, serverVars, nickname, username, registered, cap_negotiating,
                   enabled_capabilities, ping_timer, pong_rx, immq, bcast, held, scen, timeVars,
                   deadline, inbox, callVars, modes>>

\* a supervisor that takes the notification and keeps its marker
MarkerKept(sv) == sv

\* the supervisor after a notification: last_ping = None
MarkerReset(sv) == [sv EXCEPT !.last_ping = NoTime]

\* the pong_rx.recv() arm of the supervisor's select
pong_recv(s) ==
    /\ supervisor[s].task = "running"
    /\ pong_rx[s] > 0
    /\ pong_rx' = [pong_rx EXCEPT ![s] = @ - 1]
    /\ supervisor' = [supervisor EXCEPT ![s] = MarkerReset(@)]
    /\ last' = [op |-> "pong_recv", id |-> s]
    /\ UNCHANGED <<conn, serverVars, nickname, username, registered, cap_negotiating,
                   enabled_capabilities, ping_timer, queueVars, bcast, held, scen, timeVars,
                   deadline, outstanding, inbox, callVars, modes>>

\* the connection task of s has its sleep running
SleepPending(s) == deadline[s] # NoTime /\ conn[s] \in {"open", "blocked", "closing"}

\* the timeout arm of the select in handle_connection.  From then on the
\* connection future is no longer polled.  If it is suspended inside
\* handle_connection_with_reader (reading, or in a handler) it owns the
\* guard of the session's mutex, and client.lock() of this arm never
\* returns: nothing is sent, nothing is removed, no line is read again.
\* If the reader has returned and cleanup has not begun, the mutex is free:
\* a session that is not registered is sent the ERROR line and the
\* function returns Err, dropping the connection future before cleanup and
\* remove_client; for a registered one the connection future is awaited.
registration_timeout(s) ==
    /\ SleepPending(s)
    /\ deadline[s] <= now
    /\ deadline' = [deadline EXCEPT ![s] = NoTime]
    /\ IF conn[s] \in {"open", "blocked"}
       THEN /\ conn' = [conn EXCEPT ![s] = "hung"]
            /\ UNCHANGED immq
       ELSE IF ~ registered[s]
       THEN /\ conn' = [conn EXCEPT ![s] = "dropped"]
            /\ immq' = [immq EXCEPT ![s] = Append(@, Frame("ERROR", <<"Registration timeout">>))]
       ELSE UNCHANGED <<conn, immq>>
    /\ last' = [op |-> "registration_timeout", id |-> s, registered |-> registered[s]]
    /\ UNCHANGED <<serverVars, clientVars, sendq, bcast, held, scen, timeVars, outstanding,
                   inbox, callVars, modes>>

\* the clock runs for ping_timeout and MaxTicks ping intervals
MaxTicks == 3

\* the instants at which a timer is due
Timers ==
    {supervisor[s].next_tick : s \in {c \in ClientIds : supervisor[c].task = "running"}}
        \cup {deadline[s] : s \in {c \in ClientIds : SleepPending(c)}}

\* time passes up to the next instant at which a timer is due; it does not
\* pass while a task has a timer due or a notification to receive
advance_time ==
    /\ \A s \in ClientIds :
          /\ ~ (supervisor[s].task = "running" /\ (supervisor[s].next_tick <= now \/ pong_rx[s] > 0))
          /\ ~ (SleepPending(s) /\ deadline[s] <= now)
    /\ \E t \in Timers :
          /\ t > now
          /\ \A u \in Timers : u > now => t <= u
          /\ t <= timeouts.ping_timeout + MaxTicks * timeouts.ping_interval
          /\ now' = t
          /\ outstanding' = [s \in ClientIds |->
                IF outstanding[s].since # NoTime /\ t - outstanding[s].since > timeouts.ping_timeout
                THEN [outstanding[s] EXCEPT !.overdue = TRUE]
                ELSE outstanding[s]]
    /\ last' = [op |-> "advance_time"]
    /\ UNCHANGED <<conn, serverVars, clientVars, queueVars, bcast, held, scen, timeouts, deadline,
                   inbox, callVars, modes>>

(***************************************************************************)
(* Specifications.                                                         *)
(***************************************************************************)
UserName == <<120>>

\* the lines a client sends while it registers
RegistrationMessages ==
    {Frame("CAP", <<"LS", "302">>), Frame("CAP", <<"END">>)}
        \cup {Frame("NICK", <<n>>) : n \in Nicks \cup BadNicks}
        \cup {Frame("USER", <<UserName, "0", "*", UserName>>), Frame("QUIT", <<>>)}

\* sessions that register, change nick, quit and disconnect
NextSession ==
    \/ \E s \in ClientIds : Accept(s)
    \/ \E s \in ClientIds, msg \in RegistrationMessages : handle_message(s, msg)
    \/ \E s \in ClientIds : Eof(s)
    \/ \E s \in ClientIds : remove_client(s)
    \/ \E s \in ClientIds : Writer(s)

SpecSession == Init /\ [][NextSession]_vars

\* every line the model has a client send
AllMessages ==
    RegistrationMessages
        \cup {Frame("CAP", <<"REQ", <<"multi-prefix">>>>), Frame("CAP", <<"REQ", <<"batch">>>>),
              Frame("CAP", <<"REQ">>), Frame("CAP", <<"LIST">>), Frame("CAP", <<"FOO">>),
              Frame("CAP", <<>>)}
        \cup {Frame("NICK", <<>>), Frame("USER", <<UserName>>), Frame("PING", <<"t">>),
              Frame("PING", <<>>), Frame("FOO", <<>>)}
        \cup {Frame("JOIN", <<c>>) : c \in ChannelNames}

\* sessions that negotiate capabilities, register and send other commands
NextReg ==
    \/ \E s \in ClientIds : Accept(s)
    \/ \E s \in ClientIds, msg \in AllMessages : handle_message(s, msg)
    \/ \E s \in ClientIds : Writer(s)

SpecReg == Init /\ [][NextReg]_vars

\* the token lists of the CAP REQ lines
RequestedTokens == {<<"multi-prefix">>, <<"batch">>, <<"server-time", "batch">>}

\* the lines of a client that negotiates capabilities and registers
CapMessages ==
    RegistrationMessages
        \cup {Frame("CAP", <<"REQ", tokens>>) : tokens \in RequestedTokens}
        \cup {Frame("CAP", <<"REQ">>), Frame("CAP", <<"LIST">>), Frame("CAP", <<"FOO">>),
              Frame("PING", <<"t">>)}

\* sessions that negotiate capabilities and register
NextCap ==
    \/ \E s \in ClientIds : Accept(s)
    \/ \E s \in ClientIds, msg \in CapMessages : handle_message(s, msg)
    \/ \E s \in ClientIds : Writer(s)

SpecCap == Init /\ [][NextCap]_vars

\* the lines of a client that writes command names in upper, lower and
\* mixed case; the parser hands the name on as it was written
CaseMessages ==
    {Frame("NICK", <<n>>) : n \in {<<97>>, <<98>>}}
        \cup {Frame(c, <<name>>) : c \in {"JOIN", "join", "Join", "FOO"}, name \in ChannelNames}

\* sessions that send command names in any case
NextCase ==
    \/ \E s \in ClientIds : Accept(s)
    \/ \E s \in ClientIds, msg \in CaseMessages : handle_message(s, msg)
    \/ \E s \in ClientIds : Writer(s)

SpecCase == Init /\ [][NextCase]_vars

\* a direct call of Server::remove_from_channel, the call handle_part makes
\* once its broadcast is through; on a channel whose lock is held for good
\* the call does not return
remove_from_channel(name, id) ==
    /\ name \in DOMAIN channels
    /\ ~ channels[name].locked
    /\ channels' = [channels EXCEPT ![name] = remove_member(@, id)]
    /\ last' = [op |-> "remove_from_channel", id |-> id, channel |-> name]
    /\ UNCHANGED <<conn, clients, client_map, nicknames, nickname_map, clientVars, queueVars,
                   bcast, held, scen, timeVars, deadline, outstanding, inbox, callVars, modes>>

\* the lines of a client that takes a nickname and uses a channel
ChannelMessages ==
    {Frame("NICK", <<n>>) : n \in {<<97>>, <<98>>}}
        \cup {Frame(c, <<name>>) : c \in {"JOIN", "PART", "MODE"}, name \in ChannelNames}
        \cup {Frame("MODE", <<name, <<"+", "m", "-", "t">>>>) : name \in ChannelNames}
        \cup {Frame("MODE", <<name, <<"+", "o">>, <<97>>>>) : name \in ChannelNames}

\* sessions that join, part and set modes, sessions that go away, and
\* callers of remove_from_channel
NextChannel ==
    \/ \E s \in ClientIds : Accept(s)
    \/ \E s \in ClientIds, msg \in ChannelMessages : handle_message(s, msg)
    \/ \E s \in ClientIds : Eof(s)
    \/ \E s \in ClientIds : remove_client(s)
    \/ \E s \in ClientIds : Writer(s)
    \/ \E name \in ChannelNames, id \in ClientIds : remove_from_channel(name, id)

SpecChannel == Init /\ [][NextChannel]_vars

\* the timeouts the server is configured with: 1 s / 2 s, the defaults, and
\* two with a ping_interval above the ping_timeout
TimeoutConfigs ==
    {[ping_interval |-> 1, ping_timeout |-> 2], DefaultTimeouts,
     [ping_interval |-> 2, ping_timeout |-> 1], [ping_interval |-> 3, ping_timeout |-> 2]}

\* the lines of a client that registers and answers, or does not answer, PINGs
PingMessages ==
    {Frame("NICK", <<<<97>>>>), Frame("USER", <<UserName, "0", "*", UserName>>), Frame("PONG", <<>>)}

\* registered sessions, their ping supervisors and the clock
NextPing ==
    \/ \E s \in ClientIds : Accept(s)
    \/ \E s \in ClientIds, msg \in PingMessages : handle_message(s, msg)
    \/ \E s \in ClientIds : Writer(s)
    \/ \E s \in ClientIds : ping_tick(s)
    \/ \E s \in ClientIds : pong_recv(s)
    \/ \E s \in ClientIds : registration_timeout(s)
    \/ advance_time

SpecPing == (\E cfg \in TimeoutConfigs : ServerNew(cfg)) /\ [][NextPing]_vars

\* the lines of a client that registers, or does only half of it
TimeoutMessages ==
    {Frame("NICK", <<<<97>>>>), Frame("USER", <<UserName, "0", "*", UserName>>)}

\* connections that register or not, or go away, while the clock runs past
\* the sleep of handle_connection
NextTimeout ==
    \/ \E s \in ClientIds : Accept(s)
    \/ \E s \in ClientIds, msg \in TimeoutMessages : handle_message(s, msg)
    \/ \E s \in ClientIds : Eof(s)
    \/ \E s \in ClientIds : remove_client(s)
    \/ \E s \in ClientIds : Writer(s)
    \/ \E s \in ClientIds : ping_tick(s)
    \/ \E s \in ClientIds : registration_timeout(s)
    \/ advance_time

SpecTimeout == Init /\ [][NextTimeout]_vars

\* an interval longer than the timeout, the setting under which the
\* supervisor's test can succeed
ShortTimeouts == [ping_interval |-> 2, ping_timeout |-> 1]

\* the next lines of a client that registers under its own nickname, joins
\* a channel, talks to it or sets its topic from outside, and as a member
\* talks, sets the topic or quits
ClientScript(s) ==
    IF nickname[s] = None THEN {Frame("NICK", <<<<96 + s>>>>)}
    ELSE IF ~ registered[s] THEN {Frame("USER", <<UserName, "0", "*", UserName>>)}
    ELSE IF \A c \in DOMAIN channels : s \notin channels[c].members
    THEN {Frame(cmd, <<c>>) : cmd \in {"JOIN"}, c \in ChannelNames}
             \cup {Frame("PRIVMSG", <<c, "hi">>) : c \in ChannelNames}
             \cup {Frame("TOPIC", <<c, "x">>) : c \in ChannelNames}
    ELSE {Frame("PRIVMSG", <<c, "hi">>) : c \in ChannelNames} \cup {Frame("QUIT", <<>>)}
             \cup {Frame("TOPIC", <<c, "x">>) : c \in ChannelNames}

\* clients that write lines to their sockets, readers that take them, the
\* writers and the ping supervisors
NextDeliver ==
    \/ \E s \in ClientIds : Accept(s)
    \/ \E s \in ClientIds : \E msg \in ClientScript(s) : client_send(s, msg)
    \/ \E s \in ClientIds : read_line(s)
    \/ \E s \in ClientIds : Writer(s)
    \/ \E s \in ClientIds : ping_tick(s)
    \/ advance_time

\* the runtime polls every task that can make a step: a reader with a line
\* to read, a writer with a frame to write, a supervisor with a tick due
FairDeliver ==
    /\ \A s \in ClientIds : WF_vars(read_line(s)) /\ WF_vars(Writer(s)) /\ WF_vars(ping_tick(s))
    /\ WF_vars(advance_time)

SpecDeliver == ServerNew(ShortTimeouts) /\ [][NextDeliver]_vars /\ FairDeliver

(***************************************************************************)
(* Direct calls of the Server's methods by concurrent tasks, as the tests  *)
(* of server/tests.rs make them.  A method is a sequence of steps, one per *)
(* lock it takes and per access it makes under the lock.                   *)
(***************************************************************************)
\* what no direct call touches
sessionVars == <<nicknames, nickname_map, clientVars, immq, bcast, held, scen, timeVars, deadline,
                 outstanding, inbox>>

\* RwLock::write is granted at once: the lock excludes nobody
NoExclusion(l) == TRUE

\* RwLock::write().await returns when no writer and no reader holds the lock
WriteFree(l) == lock[l].writer = 0 /\ lock[l].readers = {}

\* RwLock::read().await returns when no writer holds the lock
ReadFree(l) == lock[l].writer = 0

\* config.limits, as the limit tests set them below the number of names and ids
Limits == [max_clients |-> 1, max_channels |-> 1]

\* get_or_create_channel: self.channels.write().await
gc_lock(t, name) ==
    /\ task[t].pc = "idle"
    /\ WriteFree("channels")
    /\ lock' = [lock EXCEPT !["channels"].writer = t]
    /\ task' = [task EXCEPT ![t] = [Idle EXCEPT !.pc = "gc_get", !.op = "get_or_create_channel",
                                                !.arg = name]]
    /\ last' = [op |-> "gc_lock", task |-> t]
    /\ UNCHANGED <<conn, serverVars, sendq, sessionVars, objects, access, modes>>

\* get_or_create_channel: channels.get(name)
gc_get(t) ==
    /\ task[t].pc = "gc_get"
    /\ task' = [task EXCEPT ![t].pc = "gc_put", ![t].loc = (task[t].arg \in DOMAIN channels)]
    /\ last' = [op |-> "gc_get", task |-> t]
    /\ UNCHANGED <<conn, serverVars, sendq, sessionVars, lock, objects, access, modes>>

\* get_or_create_channel: the channel found is cloned, or Channel::new is
\* inserted; the guard is dropped and the Arc returned
gc_put(t) ==
    /\ task[t].pc = "gc_put"
    /\ LET name == task[t].arg IN
       IF task[t].loc
       THEN /\ task' = [task EXCEPT ![t].pc = "done", ![t].ret = objects[name]]
            /\ UNCHANGED <<channels, objects>>
       ELSE /\ channels' = MapPut(channels, name, ChannelNew)
            /\ objects' = [objects EXCEPT ![name] = @ + 1]
            /\ task' = [task EXCEPT ![t].pc = "done", ![t].ret = objects[name] + 1]
    /\ lock' = [lock EXCEPT !["channels"].writer = 0]
    /\ last' = [op |-> "get_or_create_channel", task |-> t, created |-> ~ task[t].loc]
    /\ UNCHANGED <<conn, clients, client_map, sendq, sessionVars, access, modes>>

\* Client::new and add_client: self.clients.write().await
ac_lock(t, id) ==
    /\ task[t].pc = "idle"
    /\ conn[id] = "new"
    /\ WriteFree("clients")
    /\ conn' = [conn EXCEPT ![id] = "adding"]
    /\ lock' = [lock EXCEPT !["clients"].writer = t]
    /\ task' = [task EXCEPT ![t] = [Idle EXCEPT !.pc = "ac_map", !.op = "add_client", !.arg = id]]
    /\ last' = [op |-> "ac_lock", task |-> t]
    /\ UNCHANGED <<serverVars, sendq, sessionVars, objects, access, modes>>

\* add_client: self.client_map.write().await
ac_lock_map(t) ==
    /\ task[t].pc = "ac_map"
    /\ WriteFree("client_map")
    /\ lock' = [lock EXCEPT !["client_map"].writer = t]
    /\ task' = [task EXCEPT ![t].pc = "ac_push"]
    /\ last' = [op |-> "ac_lock_map", task |-> t]
    /\ UNCHANGED <<conn, serverVars, sendq, sessionVars, objects, access, modes>>

\* add_client: clients.push(id)
ac_push(t) ==
    /\ task[t].pc = "ac_push"
    /\ clients' = Append(clients, task[t].arg)
    /\ task' = [task EXCEPT ![t].pc = "ac_insert"]
    /\ last' = [op |-> "ac_push", task |-> t]
    /\ UNCHANGED <<conn, client_map, nicknames, nickname_map, channels, sendq, sessionVars, lock,
                   objects, access, modes>>

\* add_client: client_map.insert(id, client); both guards are dropped.  The
\* mutex of a Client added this way is held by no connection task.
ac_insert(t) ==
    /\ task[t].pc = "ac_insert"
    /\ client_map' = client_map \cup {task[t].arg}
    /\ conn' = [conn EXCEPT ![task[t].arg] = "detached"]
    /\ lock' = [lock EXCEPT !["clients"].writer = 0, !["client_map"].writer = 0]
    /\ task' = [task EXCEPT ![t].pc = "done"]
    /\ last' = [op |-> "add_client", task |-> t, id |-> task[t].arg]
    /\ UNCHANGED <<clients, nicknames, nickname_map, channels, sendq, sessionVars, objects, access, modes>>

\* remove_client of any id: self.clients.write().await
rc_lock(t, id) ==
    /\ task[t].pc = "idle"
    /\ WriteFree("clients")
    /\ conn' = [conn EXCEPT ![id] = IF @ = "detached" THEN "removing" ELSE @]
    /\ lock' = [lock EXCEPT !["clients"].writer = t]
    /\ task' = [task EXCEPT ![t] = [Idle EXCEPT !.pc = "rc_swap", !.op = "remove_client", !.arg = id]]
    /\ last' = [op |-> "rc_lock", task |-> t]
    /\ UNCHANGED <<serverVars, sendq, sessionVars, objects, access, modes>>

\* remove_client: clients.swap_remove(pos)
rc_swap(t) ==
    /\ task[t].pc = "rc_swap"
    /\ clients' = swap_remove(clients, task[t].arg)
    /\ task' = [task EXCEPT ![t].pc = "rc_map"]
    /\ last' = [op |-> "rc_swap", task |-> t]
    /\ UNCHANGED <<conn, client_map, nicknames, nickname_map, channels, sendq, sessionVars, lock,
                   objects, access, modes>>

\* remove_client: self.client_map.write().await
rc_lock_map(t) ==
    /\ task[t].pc = "rc_map"
    /\ WriteFree("client_map")
    /\ lock' = [lock EXCEPT !["client_map"].writer = t]
    /\ task' = [task EXCEPT ![t].pc = "rc_remove"]
    /\ last' = [op |-> "rc_lock_map", task |-> t]
    /\ UNCHANGED <<conn, serverVars, sendq, sessionVars, objects, access, modes>>

\* remove_client: client_map.remove(&id); both guards are dropped
rc_remove(t) ==
    /\ task[t].pc = "rc_remove"
    /\ client_map' = client_map \ {task[t].arg}
    /\ conn' = [conn EXCEPT ![task[t].arg] = IF @ = "removing" THEN "removed" ELSE @]
    /\ lock' = [lock EXCEPT !["clients"].writer = 0, !["client_map"].writer = 0]
    /\ task' = [task EXCEPT ![t].pc = "done"]
    /\ last' = [op |-> "remove_client", task |-> t, id |-> task[t].arg]
    /\ UNCHANGED <<clients, nicknames, nickname_map, channels, sendq, sessionVars, objects, access, modes>>

\* get_client: client_map.read().await, get(&id).cloned()
get_client(t, id) ==
    /\ task[t].pc = "idle"
    /\ ReadFree("client_map")
    /\ task' = [task EXCEPT ![t] = [Idle EXCEPT !.pc = "done", !.op = "get_client", !.arg = id,
                                                !.ret = (id \in client_map)]]
    /\ last' = [op |-> "get_client", task |-> t, id |-> id]
    /\ UNCHANGED <<conn, serverVars, sendq, sessionVars, lock, objects, access, modes>>

\* the caller drops what the call returned and goes on
task_return(t) ==
    /\ task[t].pc = "done"
    /\ task' = [task EXCEPT ![t] = Idle]
    /\ last' = [op |-> "return", task |-> t]
    /\ UNCHANGED <<conn, serverVars, sendq, sessionVars, lock, objects, access, modes>>

\* tasks that create channels, add and remove clients and look them up
NextRegistry ==
    \/ \E t \in TaskIds, name \in CallNames : gc_lock(t, name)
    \/ \E t \in TaskIds : gc_get(t)
    \/ \E t \in TaskIds : gc_put(t)
    \/ \E t \in TaskIds, id \in ClientIds : ac_lock(t, id)
    \/ \E t \in TaskIds : ac_lock_map(t)
    \/ \E t \in TaskIds : ac_push(t)
    \/ \E t \in TaskIds : ac_insert(t)
    \/ \E t \in TaskIds, id \in ClientIds : rc_lock(t, id)
    \/ \E t \in TaskIds : rc_swap(t)
    \/ \E t \in TaskIds : rc_lock_map(t)
    \/ \E t \in TaskIds : rc_remove(t)
    \/ \E t \in TaskIds, id \in ClientIds : get_client(t, id)
    \/ \E t \in TaskIds : task_return(t)

SpecRegistry == Init /\ [][NextRegistry]_vars

\* the frame the broadcasting tasks send
Notice(name) == Frame("NOTICE", <<name, "hi">>)

\* the member ids of a channel as broadcast_to_channel collects them
member_ids(name) == IF name \in DOMAIN channels THEN channels[name].members ELSE {}

\* Option::None of a client id
NoClientId == 0

\* channel.write().await.add_member(id), a JOIN as far as the channel goes
add_member_call(name, id) ==
    /\ name \in DOMAIN channels
    /\ ~ channels[name].locked
    /\ channels' = [channels EXCEPT ![name] = add_member(@, id)]
    /\ last' = [op |-> "add_member", id |-> id, channel |-> name]
    /\ UNCHANGED <<conn, clients, client_map, sendq, sessionVars, callVars, modes>>

\* the ids a fan-out over the channel's present members would reach
PresentMembers(t) == member_ids(task[t].arg.name)

\* the ids broadcast_to_channel has yet to reach: what is left of its snapshot
Remaining(t) == task[t].loc

\* broadcast_to_channel: under the read locks of the channel map and of the
\* channel the member ids are collected; without the channel the call returns
bc_snapshot(t, name, skip) ==
    /\ task[t].pc = "idle"
    /\ ReadFree("channels")
    /\ name \in DOMAIN channels => ~ channels[name].locked
    /\ task' = [task EXCEPT ![t] =
            [pc |-> IF name \in DOMAIN channels THEN "bc_fan" ELSE "done",
             op |-> "broadcast_to_channel",
             arg |-> [name |-> name, skip |-> skip],
             loc |-> member_ids(name),
             ret |-> member_ids(name)]]
    /\ last' = [op |-> "bc_snapshot", task |-> t]
    /\ UNCHANGED <<conn, serverVars, sendq, sessionVars, lock, objects, access, modes>>

\* broadcast_to_channel: one turn of the loop over member_ids.  The id in
\* skip is passed over; for an id get_client finds, the client's mutex is
\* taken and the frame queued; an id that has left the registry is passed over.
bc_send(t) ==
    /\ task[t].pc = "bc_fan"
    /\ \E id \in Remaining(t) :
          /\ task' = [task EXCEPT ![t].loc = @ \ {id}]
          /\ IF id = task[t].arg.skip \/ id \notin client_map
             THEN UNCHANGED sendq
             ELSE /\ ReadFree("client_map")
                  /\ conn[id] \notin {"open", "blocked", "hung"}
                  /\ Len(sendq[id]) < MaxPending
                  /\ sendq' = [sendq EXCEPT ![id] = Append(@, Notice(task[t].arg.name))]
    /\ last' = [op |-> "bc_send", task |-> t]
    /\ UNCHANGED <<conn, serverVars, sessionVars, lock, objects, access, modes>>

\* broadcast_to_channel: the loop is through, Ok(())
bc_return(t) ==
    /\ task[t].pc = "bc_fan"
    /\ Remaining(t) = {}
    /\ task' = [task EXCEPT ![t].pc = "done"]
    /\ last' = [op |-> "broadcast_to_channel", task |-> t]
    /\ UNCHANGED <<conn, serverVars, sendq, sessionVars, lock, objects, access, modes>>

\* tasks that create a channel, add clients and broadcast to the channel
\* while members are added to it and removed from it
NextBroadcast ==
    \/ \E t \in TaskIds, name \in ChannelNames : gc_lock(t, name)
    \/ \E t \in TaskIds : gc_get(t)
    \/ \E t \in TaskIds : gc_put(t)
    \/ \E t \in TaskIds, id \in ClientIds : ac_lock(t, id)
    \/ \E t \in TaskIds : ac_lock_map(t)
    \/ \E t \in TaskIds : ac_push(t)
    \/ \E t \in TaskIds : ac_insert(t)
    \/ \E name \in ChannelNames, id \in ClientIds : add_member_call(name, id)
    \/ \E name \in ChannelNames, id \in ClientIds : remove_from_channel(name, id)
    \/ \E t \in TaskIds, name \in ChannelNames, skip \in ClientIds \cup {NoClientId} :
          bc_snapshot(t, name, skip)
    \/ \E t \in TaskIds : bc_send(t)
    \/ \E t \in TaskIds : bc_return(t)
    \/ \E s \in ClientIds : Writer(s)
    \/ \E t \in TaskIds : task_return(t)

SpecBroadcast == Init /\ [][NextBroadcast]_vars

\* Result<(), String> of check_access; a formatted reason is the pair of its
\* fixed text and the reason of the line
Ok == [ok |-> TRUE, err |-> <<>>]
Err(e) == [ok |-> FALSE, err |-> e]

\* the x-line records of config.rs as far as check_access reads them; target
\* is the mask of a K-, G- or I-line and the ip of a D-line
Line(target, reason, duration, set_time) ==
    [target |-> target, reason |-> reason, duration |-> duration, set_time |-> set_time]

\* the clock does not go past this
MaxClock == 3

\* the masks of the clients, a!u@b and a!u@g, and of the access lines,
\* *!*@b, *, *@? and *@g
Masks ==
    [atB |-> <<97, 33, 117, 64, 98>>, atG |-> <<97, 33, 117, 64, 103>>,
     banB |-> <<42, 33, 42, 64, 98>>, any |-> <<42>>,
     anyChar |-> <<42, 64, 63>>, allowG |-> <<42, 64, 103>>]

\* the clients check_access is asked about: what get_mask and get_ip return
AccessClients == [mask : {Masks.atB, Masks.atG}, ip : {1, 2}]

\* the access sections of the configurations the server is started with
AccessConfigs ==
    [dlines : {<<>>} \cup {<<Line(1, "d1", dur, 0)>> : dur \in {0, 1}},
     klines : {<<>>, <<Line(Masks.any, "k2", 0, 0)>>}
                \cup {<<Line(Masks.banB, "k1", dur, 0)>> : dur \in {0, 1}}
                \cup {<<Line(Masks.banB, "k1", 1, 0), Line(Masks.any, "k2", 0, 0)>>,
                      <<Line(Masks.any, "k2", 2, 0), Line(Masks.banB, "k1", 0, 0)>>},
     glines : {<<>>} \cup {<<Line(Masks.anyChar, "g1", dur, 0)>> : dur \in {0, 2}},
     ilines : {<<>>, <<Line(Masks.any, "", 0, 0)>>, <<Line(Masks.allowG, "", 0, 0)>>},
     olines : {<<>>}]

\* a ban that is always taken to be in force
NeverExpired(set_time, duration) == FALSE

\* Server::is_ban_expired
is_ban_expired(set_time, duration) ==
    IF duration = 0 THEN FALSE ELSE now - set_time > duration

\* Server::mask_match: the mask made a regular expression, * for any
\* characters, ? for one; a dot of the mask is left a regex dot, which stands
\* for one character as well; the expression is anchored at both ends
RECURSIVE mask_match(_, _)
mask_match(host, mask) ==
    IF mask = <<>> THEN host = <<>>
    ELSE IF Head(mask) = 42
    THEN mask_match(host, Tail(mask)) \/ (host # <<>> /\ mask_match(Tail(host), mask))
    ELSE IF Head(mask) \in {63, 46}
    THEN host # <<>> /\ mask_match(Tail(host), Tail(mask))
    ELSE host # <<>> /\ Head(host) = Head(mask) /\ mask_match(Tail(host), Tail(mask))

\* Server::is_dlined, is_klined, is_glined: iter().find(..) is the head of
\* the lines that pass the test, if any does
is_dlined(c) ==
    LET hit(l) == l.target = c.ip /\ ~ is_ban_expired(l.set_time, l.duration)
    IN  SelectSeq(access.dlines, hit)

is_klined(c) ==
    LET hit(l) == mask_match(c.mask, l.target) /\ ~ is_ban_expired(l.set_time, l.duration)
    IN  SelectSeq(access.klines, hit)

is_glined(c) ==
    LET hit(l) == mask_match(c.mask, l.target) /\ ~ is_ban_expired(l.set_time, l.duration)
    IN  SelectSeq(access.glines, hit)

\* Server::has_iline
has_iline(c) == \E i \in 1..Len(access.ilines) : mask_match(c.mask, access.ilines[i].target)

\* Server::check_access
check_access(c) ==
    IF is_dlined(c) # <<>> THEN Err(<<"D-lined: ", Head(is_dlined(c)).reason>>)
    ELSE IF is_klined(c) # <<>> THEN Err(<<"K-lined: ", Head(is_klined(c)).reason>>)
    ELSE IF is_glined(c) # <<>> THEN Err(<<"G-lined: ", Head(is_glined(c)).reason>>)
    ELSE IF ~ has_iline(c) THEN Err(<<"No matching I-line">>)
    ELSE Ok

\* a task calls check_access for a client
ca_call(t, c) ==
    /\ task[t].pc = "idle"
    /\ task' = [task EXCEPT ![t] =
            [pc |-> "done", op |-> "check_access", arg |-> c, loc |-> None, ret |-> check_access(c)]]
    /\ last' = [op |-> "check_access", task |-> t]
    /\ UNCHANGED <<conn, serverVars, sendq, sessionVars, lock, objects, access, modes>>

\* Server::add_kline: the line is pushed onto a clone of config.access, the
\* clone is dropped at the return; config.access is not written
add_kline(t, kline) ==
    /\ task[t].pc = "idle"
    /\ task' = [task EXCEPT ![t] =
            [pc |-> "done", op |-> "add_kline", arg |-> kline,
             loc |-> [access EXCEPT !.klines = Append(@, kline)], ret |-> Ok]]
    /\ last' = [op |-> "add_kline", task |-> t]
    /\ UNCHANGED <<conn, serverVars, sendq, sessionVars, lock, objects, access, modes>>

\* Server::remove_kline: the lines of the mask are dropped from a clone of
\* config.access, the clone is dropped at the return
remove_kline(t, mask) ==
    /\ task[t].pc = "idle"
    /\ task' = [task EXCEPT ![t] =
            [pc |-> "done", op |-> "remove_kline", arg |-> mask,
             loc |-> LET keep(k) == k.target # mask
                     IN  [access EXCEPT !.klines = SelectSeq(@, keep)],
             ret |-> Ok]]
    /\ last' = [op |-> "remove_kline", task |-> t]
    /\ UNCHANGED <<conn, serverVars, sendq, sessionVars, lock, objects, access, modes>>

\* Utc::now() moves on by a second
clock_tick ==
    /\ now < MaxClock
    /\ now' = now + 1
    /\ last' = [op |-> "clock_tick"]
    /\ UNCHANGED <<conn, serverVars, clientVars, queueVars, bcast, held, scen, timeouts,
                   deadline, outstanding, inbox, callVars, modes>>

\* tasks that ask for access and set and lift K-lines while time passes
NextAccess ==
    \/ \E t \in TaskIds, c \in AccessClients : ca_call(t, c)
    \/ \E t \in TaskIds : add_kline(t, Line(Masks.banB, "k3", 0, now))
    \/ \E t \in TaskIds : remove_kline(t, Masks.banB)
    \/ \E t \in TaskIds : task_return(t)
    \/ clock_tick

SpecAccess ==
    /\ \E acc \in AccessConfigs : ServerConfigured(DefaultTimeouts, acc)
    /\ [][NextAccess]_vars

\* number of frames a queue is let grow to
MaxQueued == 11

\* a PRIVMSG for "#r" with a text of 4000 characters
BulkFrame == Frame("PRIVMSG", <<<<35, 114>>, [i \in 1..4000 |-> 120]>>)

\* the bytes of the parameters with the blank before each
RECURSIVE ParamBytes(_)
ParamBytes(params) ==
    IF params = <<>> THEN 0 ELSE 1 + Len(Head(params)) + ParamBytes(Tail(params))

\* the bytes send_message queues for a PRIVMSG: TS6Message::to_string, the
\* command and the parameters joined by blanks with a colon before the last
\* one, and CR LF
wire_len(msg) == 7 + ParamBytes(msg.params) + 1 + 2

\* the bytes that wait in a queue
RECURSIVE pending_bytes(_)
pending_bytes(q) == IF q = <<>> THEN 0 ELSE wire_len(Head(q)) + pending_bytes(Tail(q))

\* Client::send_message: the message is made a line and handed to sendq_tx;
\* the send tests no size, and fails only once the receiver is gone
send_message(s, msg) ==
    /\ conn[s] = "open"
    /\ Len(sendq[s]) < MaxQueued
    /\ sendq' = [sendq EXCEPT ![s] = Append(@, msg)]
    /\ last' = [op |-> "send_message", id |-> s]
    /\ UNCHANGED <<conn, serverVars, clientVars, immq, bcast, held, scen, timeVars, deadline,
                   outstanding, inbox, callVars, modes>>

\* sessions that are sent frames while their writers take them or are held
\* up by peers that do not read
NextSendq ==
    \/ \E s \in ClientIds : Accept(s)
    \/ \E s \in ClientIds : send_message(s, BulkFrame)
    \/ \E s \in ClientIds : Writer(s)

SpecSendq == Init /\ [][NextSendq]_vars

(***************************************************************************)
(* The operator commands and the user MODE of client/commands.             *)
(***************************************************************************)
\* Client::get_mask: session 1 connects from host b, session 2 from host g
get_mask(s) == IF s = 1 THEN Masks.atB ELSE Masks.atG

\* a configuration with one O-line, for the host b
OperAccess == [NoLines EXCEPT !.olines = <<[mask |-> Masks.banB, password |-> "pw"]>>]

\* Server::has_oline
has_oline(s) == \E i \in 1..Len(access.olines) : mask_match(get_mask(s), access.olines[i].mask)

\* what a handler of client/commands leaves alone when it returns an Err
\* or has nothing to do
Nothing == NoEffect /\ UNCHANGED modes

\* Client::handle_oper
handle_oper(s, msg) ==
    IF Len(msg.params) < 2
    THEN Nothing
    ELSE IF ~ has_oline(s)
    THEN /\ sendq' = [sendq EXCEPT ![s] = Append(@, Numeric(nickname[s], "491", <<>>))]
         /\ UNCHANGED <<conn, serverVars, clientVars, immq, bcast, held, modes>>
    ELSE /\ modes' = [modes EXCEPT ![s] = @ \cup {"o"}]
         /\ sendq' = [sendq EXCEPT ![s] =
                @ \o <<Numeric(nickname[s], "381", <<>>),
                       Numeric(nickname[s], "221", <<modes[s] \cup {"o"}>>)>>]
         /\ UNCHANGED <<conn, serverVars, clientVars, immq, bcast, held>>

\* the loop of handle_mode over the characters of a user mode string
RECURSIVE apply_user_modes(_, _, _, _)
apply_user_modes(set, chars, i, adding) ==
    IF i > Len(chars)
    THEN set
    ELSE LET c == chars[i] IN
      CASE c = "+" -> apply_user_modes(set, chars, i + 1, TRUE)
        [] c = "-" -> apply_user_modes(set, chars, i + 1, FALSE)
        [] c \in {"i", "w", "o", "O", "r"} ->
             apply_user_modes(IF adding THEN set \cup {c} ELSE set \ {c}, chars, i + 1, adding)
        [] OTHER -> apply_user_modes(set, chars, i + 1, adding)

\* Client::handle_mode of client/commands/user.rs: the user modes of the
\* session's own nickname are shown or changed; any other target is an Err
handle_mode(s, msg) ==
    IF Len(msg.params) = 0 \/ nickname[s] = None \/ msg.params[1] # nickname[s]
    THEN Nothing
    ELSE IF Len(msg.params) = 1
    THEN /\ sendq' = [sendq EXCEPT ![s] = Append(@, Numeric(nickname[s], "221", <<modes[s]>>))]
         /\ UNCHANGED <<conn, serverVars, clientVars, immq, bcast, held, modes>>
    ELSE /\ modes' = [modes EXCEPT ![s] = apply_user_modes(@, msg.params[2], 1, TRUE)]
         /\ NoEffect

\* Client::handle_kill: the target's mutex is asked for; a target whose
\* connection task runs holds it, and the handler does not return
handle_kill(s, msg) ==
    IF ~ has_oline(s) \/ Len(msg.params) < 2
    THEN Nothing
    ELSE LET to == find_client_by_nick(msg.params[1]) IN
         IF to = NoClient
         THEN /\ sendq' = [sendq EXCEPT ![s] = Append(@, Numeric(nickname[s], "401", <<msg.params[1]>>))]
              /\ UNCHANGED <<conn, serverVars, clientVars, immq, bcast, held, modes>>
         ELSE IF nickname[s] = None
         THEN /\ conn' = [conn EXCEPT ![s] = "panicked"]
              /\ UNCHANGED <<serverVars, clientVars, queueVars, bcast, held, modes>>
         ELSE IF conn[to] \in {"open", "blocked", "hung"}
         THEN /\ conn' = [conn EXCEPT ![s] = "blocked"]
              /\ UNCHANGED <<serverVars, clientVars, queueVars, bcast, held, modes>>
         ELSE /\ immq' = [immq EXCEPT ![to] = Append(@, Frame("ERROR", <<"Killed">>))]
              /\ UNCHANGED <<conn, serverVars, clientVars, sendq, bcast, held, modes>>

\* std::process::exit(0): every task of the server ends
process_exit == [c \in ClientIds |-> "exited"]

\* Client::handle_die
handle_die(s, msg) ==
    IF ~ has_oline(s)
    THEN Nothing
    ELSE /\ conn' = process_exit
         /\ UNCHANGED <<serverVars, clientVars, queueVars, bcast, held, modes>>

\* Client::handle_rehash
handle_rehash(s, msg) ==
    IF ~ has_oline(s)
    THEN Nothing
    ELSE /\ sendq' = [sendq EXCEPT ![s] = Append(@, Numeric(nickname[s], "382", <<"ircd.conf">>))]
         /\ UNCHANGED <<conn, serverVars, clientVars, immq, bcast, held, modes>>

\* Client::handle_restart
handle_restart(s, msg) ==
    IF ~ has_oline(s)
    THEN Nothing
    ELSE /\ sendq' = [sendq EXCEPT ![s] = Append(@, Numeric(nickname[s], "382", <<"ircd">>))]
         /\ conn' = process_exit
         /\ UNCHANGED <<serverVars, clientVars, immq, bcast, held, modes>>

\* Client::handle_wallops: broadcast_global does nothing
handle_wallops(s, msg) == Nothing

\* Client::handle_topic of client/commands.  The channel is taken with
\* get_or_create_channel and write-locked.  With a topic the handler sets
\* it and calls broadcast_to_channel with the write lock still held, so it
\* never returns; without one it answers 331, or 332 and 333.
handle_topic(s, msg) ==
    IF Len(msg.params) = 0
    THEN Nothing
    ELSE LET name == msg.params[1]
             chans == get_or_create_channel(channels, name)
         IN IF chans[name].locked
            THEN /\ conn' = [conn EXCEPT ![s] = "blocked"]
                 /\ bcast' = [bcast EXCEPT ![s] = name]
                 /\ UNCHANGED <<serverVars, clientVars, queueVars, held, modes>>
            ELSE IF Len(msg.params) > 1
            THEN /\ channels' = MapPut(chans, name,
                                       [chans[name] EXCEPT !.topic = msg.params[2], !.locked = TRUE])
                 /\ conn' = [conn EXCEPT ![s] = "blocked"]
                 /\ bcast' = [bcast EXCEPT ![s] = name]
                 /\ UNCHANGED <<clients, client_map, nicknames, nickname_map, clientVars,
                                queueVars, held, modes>>
            ELSE /\ channels' = chans
                 /\ sendq' = [sendq EXCEPT ![s] = @ \o
                        (IF chans[name].topic = None
                         THEN <<Numeric(nickname[s], "331", <<name>>)>>
                         ELSE <<Numeric(nickname[s], "332", <<name, chans[name].topic>>),
                                Numeric(nickname[s], "333", <<name>>)>>)]
                 /\ UNCHANGED <<conn, clients, client_map, nicknames, nickname_map, clientVars,
                                immq, bcast, held, modes>>

\* the handlers of client/commands, each run on a line of its command by
\* the reader of the session
command_handler(s, msg) ==
    /\ conn[s] = "open"
    /\ WriterKeepsUp
    /\ CASE msg.command = "OPER" -> handle_oper(s, msg)
         [] msg.command = "MODE" -> handle_mode(s, msg)
         [] msg.command = "KILL" -> handle_kill(s, msg)
         [] msg.command = "DIE" -> handle_die(s, msg)
         [] msg.command = "REHASH" -> handle_rehash(s, msg)
         [] msg.command = "RESTART" -> handle_restart(s, msg)
         [] msg.command = "WALLOPS" -> handle_wallops(s, msg)
         [] msg.command = "TOPIC" -> handle_topic(s, msg)
    /\ last' = [op |-> "command_handler", id |-> s, command |-> msg.command, params |-> msg.params]
    /\ UNCHANGED <<scen, timeVars, deadline, outstanding, inbox, callVars>>

\* the lines of the operator commands and of the user MODE
OperMessages ==
    {Frame("OPER", <<"u", pw>>) : pw \in {"pw", "guess"}}
        \cup {Frame("MODE", <<n, chars>>) : n \in {<<97>>, <<98>>},
                                            chars \in {<<"+", "o">>, <<"+", "i", "-", "o">>}}
        \cup {Frame("MODE", <<n>>) : n \in {<<97>>, <<98>>}}
        \cup {Frame("KILL", <<n, "r">>) : n \in {<<98>>, <<99>>}}
        \cup {Frame(c, <<"x">>) : c \in {"DIE", "REHASH", "RESTART", "WALLOPS"}}

\* sessions that take nicknames and send operator commands and user modes
NextOper ==
    \/ \E s \in ClientIds : Accept(s)
    \/ \E s \in ClientIds, n \in {<<97>>, <<98>>} : handle_message(s, Frame("NICK", <<n>>))
    \/ \E s \in ClientIds, msg \in OperMessages : command_handler(s, msg)
    \/ \E s \in ClientIds : Writer(s)

SpecOper == ServerConfigured(DefaultTimeouts, OperAccess) /\ [][NextOper]_vars

\* the lines that name a channel and are not JOIN, and the JOIN line
AbsentMessages ==
    {Frame("NICK", <<<<97>>>>), Frame("USER", <<UserName, "0", "*", UserName>>)}
        \cup {Frame(c, <<name>>) : c \in {"JOIN", "PART", "MODE"}, name \in ChannelNames}
        \cup {Frame("MODE", <<name, <<"+", "m", "-", "t">>>>) : name \in ChannelNames}
        \cup {Frame(c, <<name, "hi">>) : c \in {"PRIVMSG", "NOTICE"}, name \in ChannelNames}

\* the TOPIC lines: a query and a new topic "x"
TopicMessages ==
    {Frame("TOPIC", <<name>>) : name \in ChannelNames}
        \cup {Frame("TOPIC", <<name, <<120>>>>) : name \in ChannelNames}

\* sessions that register and name a channel in their commands
NextTopic ==
    \/ \E s \in ClientIds : Accept(s)
    \/ \E s \in ClientIds, msg \in AbsentMessages : handle_message(s, msg)
    \/ \E s \in ClientIds, msg \in TopicMessages : command_handler(s, msg)
    \/ \E s \in ClientIds : Writer(s)

SpecTopic == Init /\ [][NextTopic]_vars

(***************************************************************************)
(* The wire codec: ts6::parser::parse_message and TS6Message::to_string.   *)
(* A line is the sequence of its ASCII codes: 32 blank, 58 colon, 64 at,   *)
(* 59 semicolon, 61 equals sign.                                           *)
(***************************************************************************)
\* str::find(ch): the index of the first ch in s, 0 if there is none
find(s, ch) ==
    IF \E i \in 1..Len(s) : s[i] = ch
    THEN CHOOSE i \in 1..Len(s) : s[i] = ch /\ \A j \in 1..(i - 1) : s[j] # ch
    ELSE 0

\* str::split(ch): the pieces between the occurrences of ch, empty ones too
RECURSIVE split(_, _)
split(s, ch) ==
    IF find(s, ch) = 0
    THEN <<s>>
    ELSE <<SubSeq(s, 1, find(s, ch) - 1)>> \o split(SubSeq(s, find(s, ch) + 1, Len(s)), ch)

\* str::splitn(2, ch), and str::split_once(ch) where it has two pieces
splitn2(s, ch) ==
    IF find(s, ch) = 0
    THEN <<s>>
    ELSE <<SubSeq(s, 1, find(s, ch) - 1), SubSeq(s, find(s, ch) + 1, Len(s))>>

\* the loop of parse_params over the pieces of the parameter string
RECURSIVE params_loop(_, _, _, _, _)
params_loop(parts, i, params, trailing, in_trailing) ==
    IF i > Len(parts)
    THEN (IF in_trailing THEN Append(params, trailing) ELSE params)
    ELSE LET part == parts[i] IN
         IF part # <<>> /\ part[1] = 58
         THEN params_loop(parts, i + 1, params, trailing \o Tail(part), TRUE)
         ELSE IF in_trailing
         THEN params_loop(parts, i + 1, params, trailing \o <<32>> \o part, TRUE)
         ELSE params_loop(parts, i + 1, Append(params, part), trailing, FALSE)

\* ts6::parser::parse_params
parse_params(param_str) == params_loop(split(param_str, 32), 1, <<>>, <<>>, FALSE)

\* the tags of parse_message: the pieces with an equals sign, by their keys
RECURSIVE tags_loop(_, _, _)
tags_loop(pieces, i, tags) ==
    IF i > Len(pieces)
    THEN tags
    ELSE LET kv == splitn2(pieces[i], 61) IN
         tags_loop(pieces, i + 1, IF Len(kv) = 2 THEN MapPut(tags, kv[1], kv[2]) ELSE tags)

\* Err(..) of parse_message
ParseErr == [ok |-> FALSE, tags |-> EmptyMap, source |-> None, command |-> <<>>, params |-> <<>>]

\* ts6::parser::parse_message
parse_message(line) ==
    IF line = <<>>
    THEN ParseErr
    ELSE LET tagged == line[1] = 64
             tparts == splitn2(Tail(line), 32)
         IN  IF tagged /\ Len(tparts) # 2
             THEN ParseErr
             ELSE LET tags == IF tagged THEN tags_loop(split(tparts[1], 59), 1, EmptyMap) ELSE EmptyMap
                      rest == IF tagged THEN tparts[2] ELSE line
                      parts == splitn2(rest, 32)
                      sourced == rest # <<>> /\ rest[1] = 58
                  IN  IF sourced /\ Len(parts) < 2
                      THEN ParseErr
                      ELSE LET cparts == splitn2(IF sourced THEN parts[2] ELSE rest, 32)
                           IN  [ok |-> TRUE,
                                tags |-> tags,
                                source |-> IF sourced THEN Tail(parts[1]) ELSE None,
                                command |-> cparts[1],
                                params |-> IF Len(cparts) = 2 THEN parse_params(cparts[2]) ELSE <<>>]

\* [String]::join(" ")
RECURSIVE join(_)
join(parts) ==
    IF parts = <<>> THEN <<>>
    ELSE IF Len(parts) = 1 THEN parts[1]
    ELSE parts[1] \o <<32>> \o join(Tail(parts))

\* TS6Message::to_string: the source after a colon, the command, the
\* parameters, the last one after a colon; the tags are not written
to_string(msg) ==
    join((IF msg.source # None THEN <<<<58>> \o msg.source>> ELSE <<>>)
            \o <<msg.command>>
            \o (IF msg.params = <<>> THEN <<>>
                ELSE SubSeq(msg.params, 1, Len(msg.params) - 1)
                        \o <<<<58>> \o msg.params[Len(msg.params)]>>))

\* the texts after the colon of the trailing parameter: "b", "b c", "b  c",
\* "b :c" and the empty text
TrailingTexts == {<<98>>, <<98, 32, 99>>, <<98, 32, 32, 99>>, <<98, 32, 58, 99>>, <<>>}

\* the lines parsed: "", "J", "J a", "J  a", ":s J a", ":s", "@k=v J a",
\* "@k J a", "@k=v;l=w :s J a", "@k=v", and "J a :<text>" and ":s J :<text>"
\* for each of the texts
Lines ==
    {<<>>, <<74>>, <<74, 32, 97>>, <<74, 32, 32, 97>>, <<58, 115, 32, 74, 32, 97>>, <<58, 115>>,
     <<64, 107, 61, 118, 32, 74, 32, 97>>, <<64, 107, 32, 74, 32, 97>>,
     <<64, 107, 61, 118, 59, 108, 61, 119, 32, 58, 115, 32, 74, 32, 97>>, <<64, 107, 61, 118>>}
        \cup {<<74, 32, 97, 32, 58>> \o text : text \in TrailingTexts}
        \cup {<<58, 115, 32, 74, 32, 58>> \o text : text \in TrailingTexts}

\* a task parses a line and, if the line is accepted, writes the message
\* out and parses what it wrote
codec_call(t, line) ==
    /\ task[t].pc = "idle"
    /\ LET first == parse_message(line)
           text == IF first.ok THEN to_string(first) ELSE <<>>
       IN  task' = [task EXCEPT ![t] =
                [pc |-> "done", op |-> "parse_message", arg |-> line, loc |-> text,
                 ret |-> [first |-> first,
                          again |-> IF first.ok THEN parse_message(text) ELSE ParseErr]]]
    /\ last' = [op |-> "parse_message", task |-> t]
    /\ UNCHANGED <<conn, serverVars, sendq, sessionVars, lock, objects, access, modes>>

\* tasks that parse lines and write the messages out again
NextCodec ==
    \/ \E t \in TaskIds, line \in Lines : codec_call(t, line)
    \/ \E t \in TaskIds : task_return(t)

SpecCodec == Init /\ [][NextCodec]_vars

(***************************************************************************)
(* Claims.                                                                 *)
(***************************************************************************)
FoldEqual(n1, n2) == to_lowercase(n1) = to_lowercase(n2)

\* the nickname map holds exactly the reservations granted and not released
MapIsHeld ==
    /\ DOMAIN nickname_map = {to_lowercase(h.nick) : h \in held}
    /\ \A h \in held : nickname_map[to_lowercase(h.nick)] = h.id

\* C1: nickname reservation is mutually exclusive and linearizable: no two
\* reservations are held at once for nicks equal after case folding, a
\* register_nickname succeeds exactly when no case-fold-equal reservation is
\* held (so it fails from a successful register_nickname until
\* unregister_nickname, and succeeds again after it).
C1_NickReservationExclusive ==
    /\ [](\A h1, h2 \in held : FoldEqual(h1.nick, h2.nick) => h1 = h2)
    /\ []MapIsHeld
    /\ [][last'.op = "register_nickname" =>
            (last'.ok <=> ~ \E h \in held : FoldEqual(h.nick, last'.nick))]_vars
    /\ [][last'.op = "unregister_nickname" =>
            ~ \E h \in held' : FoldEqual(h.nick, last'.nick)]_vars

\* C1 witness: "A" was refused to one client while another holds "a"
C1_Witness ==
    /\ last.op = "register_nickname"
    /\ ~ last.ok
    /\ last.nick = <<65>>
    /\ \E h \in held : h.nick = <<97>> /\ h.id # last.id

\* the sessions the registry knows that have completed registration
LiveRegistered == {s \in client_map : registered[s]}

\* C2: the nickname map holds an entry (lowercased nick -> session id) for
\* the current nickname of every registered session, and no other entry.
C2_NickMapIsRegisteredNicks ==
    /\ \A s \in LiveRegistered :
          /\ to_lowercase(nickname[s]) \in DOMAIN nickname_map
          /\ nickname_map[to_lowercase(nickname[s])] = s
    /\ \A k \in DOMAIN nickname_map :
          \E s \in LiveRegistered : k = to_lowercase(nickname[s]) /\ nickname_map[k] = s

\* C3: a registered session has a nickname and a username and is not in
\* capability negotiation.
C3_RegisteredImpliesIdentity ==
    \A s \in ClientIds :
        registered[s] => nickname[s] # None /\ username[s] # None /\ ~ cap_negotiating[s]

\* C5: once a session has terminated (cleanup, then remove_client),
\* find_client_by_nick of its old nickname returns none, the nickname map
\* has no entry for it, and no channel's member set contains its id.
C5_TerminatedSessionLeavesNoTrace ==
    \A s \in ClientIds :
        conn[s] = "closed" =>
            /\ nickname[s] # None =>
                  /\ find_client_by_nick(nickname[s]) = NoClient
                  /\ to_lowercase(nickname[s]) \notin DOMAIN nickname_map
            /\ \A c \in DOMAIN channels : s \notin channels[c].members

\* session o holds the nick n: it is o's nickname and the map entry is o's
HeldBy(o, n) ==
    /\ o \in client_map
    /\ nickname[o] # None
    /\ FoldEqual(nickname[o], n)
    /\ to_lowercase(n) \in DOMAIN nickname_map
    /\ nickname_map[to_lowercase(n)] = o

\* C6: a NICK for a nickname held by another session is answered with 433
\* and changes nothing: the requester keeps its nickname and the nickname
\* map is unchanged.
C6_NickCollisionChangesNothing ==
    [][\A s \in ClientIds, n \in Nicks :
          (/\ handle_message(s, Frame("NICK", <<n>>))
           /\ ~ cap_negotiating[s]
           /\ \E o \in ClientIds \ {s} : HeldBy(o, n))
          => /\ sendq'[s] = Append(sendq[s], Numeric(nickname[s], "433", <<n>>))
             /\ nickname' = nickname
             /\ nickname_map' = nickname_map]_vars

\* the commands of a sequence of frames
Commands(q) == [i \in 1..Len(q) |-> q[i].command]

\* the frames a step appends to the bulk queue of s
NewFrames(s) == SubSeq(sendq'[s], Len(sendq[s]) + 1, Len(sendq'[s]))

\* the step completes the registration of s
Registers(s) == ~ registered[s] /\ registered'[s]

\* C7: outside capability negotiation a session is Registered exactly when
\* both NICK and USER have been accepted, in either order, and never
\* before; registration completes at most once: a registered session stays
\* registered, and 001 is queued only by the step that registers it.
C7_RegisteredIffNickAndUser ==
    /\ [](\A s \in ClientIds :
            /\ registered[s] => nickname[s] # None /\ username[s] # None
            /\ ~ cap_negotiating[s] /\ nickname[s] # None /\ username[s] # None
                  => registered[s])
    /\ [][\A s \in ClientIds :
            /\ registered[s] => registered'[s]
            /\ (\E i \in 1..Len(NewFrames(s)) : NewFrames(s)[i].command = "001")
                  => Registers(s)]_vars

\* C7 witness: USER first, then the NICK that completes the registration
C7_Witness ==
    /\ last.op = "handle_message"
    /\ last.command = "NICK"
    /\ registered[last.id]
    /\ Len(sendq[last.id]) > 0
    /\ sendq[last.id][1].command = "001"

\* C8 as stated: the step that registers a session queues exactly 001-005,
\* 251-255, 265, 266, 375, 372, 376 in that order as one batch, and the
\* ping supervisor is started only by that step, after 376.
C8_WelcomeWith253 ==
    [][\A s \in ClientIds :
          /\ Registers(s) =>
                Commands(NewFrames(s)) =
                    <<"001", "002", "003", "004", "005", "251", "252", "253", "254", "255",
                      "265", "266", "375", "372", "376">>
          /\ (~ ping_timer[s] /\ ping_timer'[s]) =>
                /\ Registers(s)
                /\ sendq'[s][Len(sendq'[s])].command = "376"]_vars

\* C8 amended: the batch is 001-005, 251, 252, 254, 255, 265, 266, 375, 372,
\* 376 (no 253), queued in that order by the step that registers the
\* session; the ping supervisor is started only by that step, after 376.
C8_WelcomeBatch ==
    [][\A s \in ClientIds :
          /\ Registers(s) =>
                Commands(NewFrames(s)) =
                    <<"001", "002", "003", "004", "005", "251", "252", "254", "255",
                      "265", "266", "375", "372", "376">>
          /\ (~ ping_timer[s] /\ ping_timer'[s]) =>
                /\ Registers(s)
                /\ sendq'[s][Len(sendq'[s])].command = "376"]_vars

\* C8 witness: a session just registered, its batch queued, its supervisor running
C8_Witness ==
    /\ last.op = "handle_message"
    /\ registered[last.id]
    /\ ping_timer[last.id]
    /\ Len(sendq[last.id]) = 14
    /\ sendq[last.id][14].command = "376"

C10_RegisteredAfterCapEnd ==
    \A s \in ClientIds :
        scen[s] = "done" =>
            /\ registered[s]
            /\ (last.op = "handle_message" /\ last.id = s) =>
                  \E i \in 1..Len(sendq[s]) : sendq[s][i].command = "001"

\* the sessions a channel reports as operators (has_mode 'o' with their
\* nickname, as WHO and NAMES ask) and as voiced
Operators(ch) ==
    {s \in client_map : nickname[s] # None /\ has_mode(ch, "o", nickname[s])}
Voices(ch) ==
    {s \in client_map : nickname[s] # None /\ has_mode(ch, "v", nickname[s])}

\* C4: in every channel the operators and the voiced are members: a
\* session that has left the channel is no longer an operator or voice.
C4_OperatorsAreMembers ==
    \A c \in DOMAIN channels :
        /\ Operators(channels[c]) \subseteq channels[c].members
        /\ Voices(channels[c]) \subseteq channels[c].members

\* the commands the session design allows before registration
PreRegistrationCommands == {"CAP", "NICK", "USER", "PASS", "QUIT", "PING", "PONG"}

\* C11: a session that is neither registered nor negotiating executes only
\* CAP, NICK, USER, PASS, QUIT, PING and PONG; any other command is answered
\* with numeric 451 and changes no session, registry or channel state.
C11_UnregisteredGets451 ==
    [][(/\ last'.op = "handle_message"
        /\ ~ registered[last'.id]
        /\ ~ cap_negotiating[last'.id]
        /\ last'.command \notin PreRegistrationCommands)
       => /\ Len(sendq'[last'.id]) = Len(sendq[last'.id]) + 1
          /\ sendq'[last'.id][Len(sendq'[last'.id])].command = "451"
          /\ UNCHANGED <<conn, serverVars, clientVars, bcast>>]_vars

\* C12: for a registered session that sends no PONG, once a PING has waited
\* for its PONG longer than ping_timeout (and the next tick of the
\* supervisor has come), the supervisor has queued ERROR :Ping timeout and
\* the session is closed, whatever ping_interval and ping_timeout are.
C12_PingTimeoutCloses ==
    \A s \in ClientIds :
        (/\ registered[s]
         /\ ~ outstanding[s].ponged
         /\ outstanding[s].since # NoTime
         /\ now - outstanding[s].since > timeouts.ping_timeout + timeouts.ping_interval)
        => /\ supervisor[s].task = "timed_out"
           /\ conn[s] = "closed"

C15_RegistrationTimeout ==
    [][\A s \in ClientIds :
          (last'.op = "registration_timeout" /\ last'.id = s) =>
             IF ~ registered[s]
             THEN /\ immq'[s] = Append(immq[s], Frame("ERROR", <<"Registration timeout">>))
                  /\ conn'[s] \in {"closing", "closed"}
             ELSE /\ conn'[s] = conn[s]
                  /\ UNCHANGED queueVars]_vars

\* the JOIN line a channel's members are sent
JoinLine(name) == Frame("JOIN", <<name>>)

\* C17: when a session with a nickname joins a channel it is added to the
\* members, and the JOIN line is queued for every member of the channel
\* that is in the registry, the joiner included.
C17_JoinReachesAllMembers ==
    [][\A s \in ClientIds, c \in ChannelNames :
          (/\ last'.op = "handle_message" /\ last'.id = s /\ last'.command = "JOIN"
           /\ ~ cap_negotiating[s]
           /\ nickname[s] # None
           /\ ~ (c \in DOMAIN channels /\ channels[c].locked))
          => /\ c \in DOMAIN channels'
             /\ s \in channels'[c].members
             /\ \A m \in channels'[c].members \cap client_map :
                    sendq'[m] = Append(sendq[m], JoinLine(c))]_vars

\* the line a client sends to talk to a channel
PrivmsgLine(name) == Frame("PRIVMSG", <<name, "hi">>)

\* the members of the channel called name, none if there is no such channel
MembersOf(name) == IF name \in DOMAIN channels THEN channels[name].members ELSE {}

\* C16: a PRIVMSG a member sends to its channel is queued for every other
\* member; one a registered session that is not a member sends is answered
\* with 442 and queued for no one.
C16_ChannelMessageDelivery ==
    /\ [][\A s \in ClientIds, c \in ChannelNames :
            (/\ last'.op = "handle_message" /\ last'.id = s /\ last'.command = "PRIVMSG"
             /\ registered[s] /\ ~ cap_negotiating[s]
             /\ s \notin MembersOf(c))
            => /\ sendq'[s] = Append(sendq[s], Numeric(nickname[s], "442", <<c>>))
               /\ \A m \in ClientIds \ {s} : sendq'[m] = sendq[m]]_vars
    /\ \A s \in ClientIds, m \in ClientIds, c \in ChannelNames :
          (/\ inbox[s] # <<>> /\ Head(inbox[s]) = PrivmsgLine(c)
           /\ registered[s]
           /\ s # m /\ {s, m} \subseteq MembersOf(c) \cap client_map)
          ~> (\E i \in 1..Len(sendq[m]) : sendq[m][i] = PrivmsgLine(c))

\* the 442 part of C16 alone
C16_NonMemberGets442 ==
    [][\A s \in ClientIds, c \in ChannelNames :
          (/\ last'.op = "handle_message" /\ last'.id = s /\ last'.command = "PRIVMSG"
           /\ registered[s] /\ ~ cap_negotiating[s]
           /\ s \notin MembersOf(c))
          => /\ sendq'[s] = Append(sendq[s], Numeric(nickname[s], "442", <<c>>))
             /\ \A m \in ClientIds \ {s} : sendq'[m] = sendq[m]]_vars

\* a registered session that is on no channel had its PRIVMSG read
C16_NonMemberWitness ==
    /\ last.op = "handle_message" /\ last.command = "PRIVMSG"
    /\ registered[last.id]
    /\ \A c \in ChannelNames : last.id \notin MembersOf(c)
    /\ \E i \in 1..Len(sendq[last.id]) : sendq[last.id][i].command = "442"

\* a QUIT line waits in the queue of m
QuitQueued(m) == \E i \in 1..Len(sendq[m]) : sendq[m][i].command = "QUIT"

\* the session s is shutting down: its client has sent QUIT, or its ping
\* supervisor has timed out
ShutDown(s) ==
    \/ inbox[s] # <<>> /\ Head(inbox[s]).command = "QUIT"
    \/ supervisor[s].task = "timed_out"

\* C14: when a session shuts down, a QUIT line is eventually queued for
\* every other member of each channel it is on.
C14_QuitReachesChannels ==
    \A s \in ClientIds, m \in ClientIds, c \in ChannelNames :
        (ShutDown(s) /\ s # m /\ {s, m} \subseteq MembersOf(c) \cap client_map)
            ~> QuitQueued(m)

\* no handler and no task queues a QUIT line for anyone
C14_NoQuitLine == \A m \in ClientIds : ~ QuitQueued(m)

\* both ways of shutting down occur for a session that shares a channel
C14_QuitSent ==
    \E s \in ClientIds, m \in ClientIds, c \in ChannelNames :
        /\ inbox[s] # <<>> /\ Head(inbox[s]).command = "QUIT"
        /\ s # m /\ {s, m} \subseteq MembersOf(c) \cap client_map
C14_PingTimedOut ==
    \E s \in ClientIds, m \in ClientIds, c \in ChannelNames :
        /\ supervisor[s].task = "timed_out"
        /\ s # m /\ {s, m} \subseteq MembersOf(c) \cap client_map

\* the reader of s handled a JOIN for the channel c, which s was not on
JoinStep(s, c) ==
    /\ last'.op = "handle_message" /\ last'.id = s /\ last'.command = "JOIN"
    /\ ~ cap_negotiating[s]
    /\ nickname[s] # None
    /\ ~ (c \in DOMAIN channels /\ channels[c].locked)
    /\ s \notin MembersOf(c)

\* C18: a session that joins a channel is its operator afterwards if and
\* only if the channel had no member when the session was added.
C18_OperatorIffFirst ==
    [][\A s \in ClientIds, c \in ChannelNames :
          JoinStep(s, c)
          => /\ s \in channels'[c].members
             /\ has_mode(channels'[c], "o", nickname[s]) <=> (MembersOf(c) = {})]_vars

\* the first half of C18: whoever joins an empty channel is its operator
C18_FirstIsOperator ==
    [][\A s \in ClientIds, c \in ChannelNames :
          (JoinStep(s, c) /\ MembersOf(c) = {})
          => has_mode(channels'[c], "o", nickname[s])]_vars

\* the names a 353 reply for the channel ch lists: every member in the
\* registry, operators marked
NamesOf(ch) ==
    {[nick |-> nickname[m], op |-> has_mode(ch, "o", nickname[m])] : m \in ch.members \cap client_map}

\* C19: the JOIN of a session queues for it a 353 reply that lists every
\* member of the channel and marks every operator.
C19_NamesReplyMarksOperators ==
    [][\A s \in ClientIds, c \in ChannelNames :
          JoinStep(s, c)
          => \E i \in 1..Len(sendq'[s]) :
                sendq'[s][i] = Numeric(nickname[s], "353", <<"=", c, NamesOf(channels'[c])>>)]_vars

\* the channel has the flag modes it was created with and an operator
AsCreated(ch) == ch.modes \ {"o"} = {"n", "t"} /\ "o" \in DOMAIN ch.mode_params

\* C20: a MODE query on a channel that is as its first JOIN left it is
\* answered with 324 and the modes n and t, nothing else.
C20_ModeQueryShowsFlagsOnly ==
    [][\A s \in ClientIds, c \in ChannelNames :
          (/\ last'.op = "handle_message" /\ last'.id = s /\ last'.command = "MODE"
           /\ ~ cap_negotiating[s]
           /\ c \in DOMAIN channels /\ AsCreated(channels[c])
           /\ sendq'[s] # sendq[s])
          => sendq'[s] = Append(sendq[s], Numeric(nickname[s], "324", <<c, {"n", "t"}>>))]_vars

\* the line a client sends to set the topic of a channel
TopicLine(name) == Frame("TOPIC", <<name, "x">>)

\* a frame with this command waits in the queue of s
Queued(s, command) == \E i \in 1..Len(sendq[s]) : sendq[s][i].command = command

\* C21: on a channel with mode t, a member that is not an operator and sets
\* the topic is answered with 482.
C21_TopicRefusedWith482 ==
    \A s \in ClientIds, c \in ChannelNames :
        (/\ inbox[s] # <<>> /\ Head(inbox[s]) = TopicLine(c)
         /\ registered[s]
         /\ s \in MembersOf(c) \cap client_map
         /\ "t" \in channels[c].modes
         /\ ~ has_mode(channels[c], "o", nickname[s]))
        ~> Queued(s, "482")

\* a member that is not an operator has sent a TOPIC line
C21_TopicSent ==
    \E s \in ClientIds, c \in ChannelNames :
        /\ inbox[s] # <<>> /\ Head(inbox[s]) = TopicLine(c)
        /\ registered[s]
        /\ s \in MembersOf(c) \cap client_map
        /\ "t" \in channels[c].modes
        /\ ~ has_mode(channels[c], "o", nickname[s])

\* no session is ever sent 482, and no channel's topic is ever set
C21_No482 ==
    /\ \A s \in ClientIds : ~ Queued(s, "482")
    /\ \A c \in DOMAIN channels : channels[c].topic = None

\* a TOPIC line that is read is answered with 421 and changes nothing else
C21_TopicIsUnknown ==
    [][\A s \in ClientIds :
          (/\ last'.op = "handle_message" /\ last'.id = s /\ last'.command = "TOPIC"
           /\ ~ cap_negotiating[s])
          => /\ sendq'[s] = Append(sendq[s], Numeric(nickname[s], "421", <<"TOPIC">>))
             /\ UNCHANGED <<conn, serverVars, clientVars, immq>>]_vars

\* C22: of the calls of get_or_create_channel with one name exactly one
\* makes a Channel, every caller is returned that one, and the channel
\* that is made has the modes n and t and no member.
C22_GetOrCreateIsAtomic ==
    /\ [](\A n \in CallNames : objects[n] <= 1 /\ (n \in DOMAIN channels <=> objects[n] = 1))
    /\ [](\A t \in TaskIds :
            (task[t].pc = "done" /\ task[t].op = "get_or_create_channel")
            => task[t].ret = 1 /\ task[t].arg \in DOMAIN channels)
    /\ [][\A n \in CallNames :
            (n \notin DOMAIN channels /\ n \in DOMAIN channels')
            => channels'[n].modes = {"n", "t"} /\ channels'[n].members = {}]_vars

\* C22 witness: both tasks have called get_or_create_channel with one name
\* at the same time, and both calls have returned
C22_Witness ==
    /\ \A t \in TaskIds : task[t].pc = "done" /\ task[t].op = "get_or_create_channel"
    /\ task[1].arg = task[2].arg
    /\ objects[task[1].arg] = 1

\* C26: the registry holds no more channels than limits.max_channels and no
\* more sessions than limits.max_clients.
C26_LimitsEnforced ==
    /\ Cardinality(DOMAIN channels) <= Limits.max_channels
    /\ Len(clients) <= Limits.max_clients

\* the two halves of C26
C26_ChannelLimit == Cardinality(DOMAIN channels) <= Limits.max_channels
C26_ClientLimit == Len(clients) <= Limits.max_clients

\* the ids in the session list
ListedIds == {clients[i] : i \in 1..Len(clients)}

\* C27: whenever neither registry lock is held by a writer the session list
\* and the id-map hold the same ids, and get_client finds an id exactly
\* from the return of its add_client to the return of its remove_client.
C27_ListAndMapAgree ==
    /\ []((lock["clients"].writer = 0 /\ lock["client_map"].writer = 0) => ListedIds = client_map)
    /\ [](\A i \in 1..Len(clients), j \in 1..Len(clients) : clients[i] = clients[j] => i = j)
    /\ [][\A t \in TaskIds, id \in ClientIds :
            (last'.op = "get_client" /\ last'.task = t /\ last'.id = id)
            => (task'[t].ret <=> conn[id] \in {"detached", "removing"})]_vars

\* C27 witness: a lookup found nothing for an id that was added and then
\* removed, while another id is still there
C27_Witness ==
    \E t \in TaskIds, id \in ClientIds :
        /\ task[t].pc = "done" /\ task[t].op = "get_client" /\ task[t].arg = id
        /\ task[t].ret = FALSE
        /\ conn[id] = "removed"
        /\ client_map # {}

\* C23: a turn of the fan-out of a broadcast queues the frame for no
\* session but one that was a member when the snapshot was taken and is not
\* the session named in skip, whatever was added to and removed from the
\* channel since.
C23_FanOutFromSnapshot ==
    [][\A t \in TaskIds :
          (last'.op = "bc_send" /\ last'.task = t)
          => \A m \in ClientIds :
                sendq'[m] # sendq[m]
                => /\ m \in task[t].ret
                   /\ m # task[t].arg.skip
                   /\ sendq'[m] = Append(sendq[m], Notice(task[t].arg.name))]_vars

\* C23 witness: a broadcast is through; a session that was added to the
\* channel after the snapshot has nothing queued, a session of the snapshot
\* has the frame
C23_Witness ==
    \E t \in TaskIds :
        /\ task[t].pc = "done" /\ task[t].op = "broadcast_to_channel"
        /\ \E m \in (MembersOf(task[t].arg.name) \cap client_map) \ task[t].ret : sendq[m] = <<>>
        /\ \E r \in task[t].ret : sendq[r] = <<Notice(task[t].arg.name)>>

\* a ban line is in force unless it is timed and its set-time plus its
\* duration lies before now
InForce(l) == l.duration = 0 \/ ~ (l.set_time + l.duration < now)

\* the reasons of the bans in force that match the client, the D-lines
\* first, then the K-lines, then the G-lines, each kind in its listed order
BansInForce(c) ==
    LET d(l) == l.target = c.ip /\ InForce(l)
        m(l) == mask_match(c.mask, l.target) /\ InForce(l)
        tag(lines, kind) == [i \in 1..Len(lines) |-> <<kind, lines[i].reason>>]
    IN  tag(SelectSeq(access.dlines, d), "D-lined: ")
            \o tag(SelectSeq(access.klines, m), "K-lined: ")
            \o tag(SelectSeq(access.glines, m), "G-lined: ")

C25_AddedKlineRejects ==
    \A t \in TaskIds :
        (last.op = "add_kline" /\ last.task = t)
        => \A c \in AccessClients :
              mask_match(c.mask, task[t].arg.target) => ~ check_access(c).ok

\* C25, the state the call leaves behind: the K-line add_kline was given is
\* among the K-lines check_access reads
C25_AddedKlineIsListed ==
    \A t \in TaskIds :
        (last.op = "add_kline" /\ last.task = t)
        => \E i \in 1..Len(access.klines) : access.klines[i] = task[t].arg

C29_ReqEntersNegotiation ==
    [][\A s \in ClientIds, tokens \in RequestedTokens :
          handle_message(s, Frame("CAP", <<"REQ", tokens>>)) => cap_negotiating'[s]]_vars

\* C29, the part the code keeps: a line of any command but CAP leaves the
\* flag of every session as it is
C29_OtherCommandsKeepFlag ==
    [][(last'.op = "handle_message" /\ last'.command # "CAP")
          => cap_negotiating' = cap_negotiating]_vars

\* C30: the bytes that wait in the bulk send queue of a session never
\* exceed 40 960.
C30_SendqCapped == \A s \in ClientIds : pending_bytes(sendq[s]) <= 40960

\* C30: a frame that would take the queue over 40 960 bytes is not queued
C30_OverCapDropped ==
    [][\A s \in ClientIds :
          (last'.op = "send_message" /\ last'.id = s
             /\ pending_bytes(sendq[s]) + wire_len(BulkFrame) > 40960)
          => sendq'[s] = sendq[s]]_vars

\* C31: a JOIN written in lower or mixed case runs the JOIN handler: the
\* session is made a member of the channel.
C31_JoinInAnyCase ==
    [][\A s \in ClientIds, c \in {"join", "Join"}, name \in ChannelNames :
          handle_message(s, Frame(c, <<name>>))
          => name \in DOMAIN channels' /\ s \in channels'[name].members]_vars

\* C31: numeric 421 is queued for no JOIN, however it is written
C31_No421ForJoin ==
    \A s \in ClientIds : \A i \in 1..Len(sendq[s]) :
        sendq[s][i].command = "421"
        => sendq[s][i].params[Len(sendq[s][i].params)] \notin {"join", "Join", "JOIN"}

\* C31, the part the code keeps: a JOIN in upper case runs the JOIN handler
C31_UpperCaseJoinRuns ==
    [][\A s \in ClientIds, name \in ChannelNames :
          handle_message(s, Frame("JOIN", <<name>>))
          => name \in DOMAIN channels' /\ s \in channels'[name].members]_vars

\* C32: an OPER whose password is not the one of an O-line that matches
\* the session's mask leaves the session's user modes as they were.
C32_OperNeedsPassword ==
    [][\A s \in ClientIds :
          (last'.op = "command_handler" /\ last'.id = s /\ last'.command = "OPER"
             /\ ~ \E i \in 1..Len(access.olines) :
                    /\ mask_match(get_mask(s), access.olines[i].mask)
                    /\ access.olines[i].password = last'.params[2])
          => modes'[s] = modes[s]]_vars

\* C32, the part the code keeps: an OPER of a session no O-line matches is
\* answered with 491 and leaves the user modes as they were
C32_NoOlineGets491 ==
    [][\A s \in ClientIds :
          (last'.op = "command_handler" /\ last'.id = s /\ last'.command = "OPER"
             /\ ~ \E i \in 1..Len(access.olines) : mask_match(get_mask(s), access.olines[i].mask))
          => /\ modes'[s] = modes[s]
             /\ sendq'[s] = Append(sendq[s], Numeric(nickname[s], "491", <<>>))]_vars

\* C39: operator status, o or O, is added to the user modes of a session
\* by no step but an OPER of that session.
C39_OperatorOnlyByOper ==
    [][\A s \in ClientIds :
          (modes'[s] \cap {"o", "O"}) \ modes[s] # {}
          => (last'.op = "command_handler" /\ last'.id = s /\ last'.command = "OPER")]_vars

\* C39, the part the code keeps: the user MODE changes the modes of no
\* session but the one that sent it
C39_ModeChangesOwnModesOnly ==
    [][\A s \in ClientIds :
          (last'.op = "command_handler" /\ last'.command = "MODE" /\ last'.id # s)
          => modes'[s] = modes[s]]_vars

\* C40: KILL, DIE, REHASH, RESTART and WALLOPS of a session that does not
\* hold user mode o change nothing: no session's connection, queue or
\* modes, and not the server.
C40_OperatorCommandsNeedModeO ==
    [][\A s \in ClientIds :
          (last'.op = "command_handler" /\ last'.id = s
             /\ last'.command \in {"KILL", "DIE", "REHASH", "RESTART", "WALLOPS"}
             /\ "o" \notin modes[s])
          => /\ conn' = conn
             /\ sendq' = sendq
             /\ immq' = immq
             /\ modes' = modes]_vars

\* C40, the part the code keeps: the operator commands of a session that
\* no O-line matches change nothing
C40_NoOlineNoEffect ==
    [][\A s \in ClientIds :
          (last'.op = "command_handler" /\ last'.id = s
             /\ last'.command \in {"KILL", "DIE", "REHASH", "RESTART", "WALLOPS"}
             /\ ~ \E i \in 1..Len(access.olines) : mask_match(get_mask(s), access.olines[i].mask))
          => /\ conn' = conn
             /\ sendq' = sendq
             /\ immq' = immq
             /\ modes' = modes]_vars

\* C33: for every line parse_message accepts, the message parsed from the
\* text to_string writes equals the message parsed from the line, in tags,
\* source, command and params.
C33_CodecRoundTrip ==
    \A t \in TaskIds :
        (task[t].pc = "done" /\ task[t].op = "parse_message" /\ task[t].ret.first.ok)
        => task[t].ret.again = task[t].ret.first

\* C33, the part the code keeps: source, command and params come back
C33_RoundTripButTags ==
    \A t \in TaskIds :
        (task[t].pc = "done" /\ task[t].op = "parse_message" /\ task[t].ret.first.ok)
        => /\ task[t].ret.again.ok
           /\ task[t].ret.again.source = task[t].ret.first.source
           /\ task[t].ret.again.command = task[t].ret.first.command
           /\ task[t].ret.again.params = task[t].ret.first.params

\* C38: the text after the colon of the first parameter that begins with a
\* colon is the last parameter, unchanged.
C38_TrailingVerbatim ==
    \A t \in TaskIds, text \in TrailingTexts :
        (task[t].pc = "done" /\ task[t].op = "parse_message"
           /\ task[t].arg = <<74, 32, 97, 32, 58>> \o text)
        => task[t].ret.first.params = <<<<97>>, text>>

\* C38, the part the code keeps: a text of which no later piece begins
\* with a colon is kept with its blanks
C38_BlanksKept ==
    \A t \in TaskIds, text \in TrailingTexts \ {<<98, 32, 58, 99>>} :
        (task[t].pc = "done" /\ task[t].op = "parse_message"
           /\ task[t].arg = <<74, 32, 97, 32, 58>> \o text)
        => task[t].ret.first.params = <<<<97>>, text>>

\* the MODE line that sets m and clears t on a channel
ModeLine(c) == Frame("MODE", <<c, <<"+", "m", "-", "t">>>>)

\* C37: a channel MODE that changes modes is followed by one MODE broadcast:
\* after the handler has run, the MODE frame is queued for a session or
\* written to the sender.
C37_ModeChangeIsBroadcast ==
    [][\A s \in ClientIds, c \in ChannelNames :
          (handle_message(s, ModeLine(c)) /\ c \in DOMAIN channels /\ ~ channels[c].locked)
          => \E m \in ClientIds :
                \/ \E i \in 1..Len(sendq'[m]) : sendq'[m][i].command = "MODE"
                \/ \E i \in 1..Len(immq'[m]) : immq'[m][i].command = "MODE"]_vars

\* C37, the part the code keeps: the characters are applied from left to
\* right, m added and t removed
C37_ModeChangesApplied ==
    [][\A s \in ClientIds, c \in ChannelNames :
          (handle_message(s, ModeLine(c)) /\ c \in DOMAIN channels /\ ~ channels[c].locked)
          => channels'[c].modes = (channels[c].modes \cup {"m"}) \ {"t"}]_vars

\* C34: no handler holds a channel's lock when it asks for the lock of the
\* channel map or of a session: no step leaves a channel's write lock with
\* a handler that has entered broadcast_to_channel.
C34_NoRequestUnderChannelLock ==
    [][\A c \in ChannelNames :
          (c \in DOMAIN channels' /\ channels'[c].locked)
          => (c \in DOMAIN channels /\ channels[c].locked)]_vars

\* C35: every handler that waits for a lock gets it: a connection task
\* that is inside a handler is back at its read loop later on.
C35_HandlersReturn ==
    \A s \in ClientIds : (conn[s] = "blocked") ~> (conn[s] = "open")

\* C36: a channel comes into existence through a JOIN only: a step that
\* adds a name to the channel map is the handling of a JOIN line.
C36_OnlyJoinCreates ==
    [][\A c \in DOMAIN channels' \ DOMAIN channels : last'.command = "JOIN"]_vars

\* C36, the part the code keeps: of the commands the dispatcher has an arm
\* for, only JOIN adds a name to the channel map
C36_DispatchedCreateOnJoinOnly ==
    [][\A c \in DOMAIN channels' \ DOMAIN channels :
          last'.op = "handle_message" => last'.command = "JOIN"]_vars

=============================================================================
